---- MODULE Spec2Model ----
(***************************************************************************)
(* Booking store of the beauty-salon bot (databas23e.py) and the bot       *)
(* handlers that call it (Beauty_salon_bot.py).                            *)
(*                                                                         *)
(* The SQLite file is the shared state: the bookings table with its        *)
(* UNIQUE(booking_date, booking_time) constraint and AUTOINCREMENT id, and *)
(* the statistics table.  Every store method opens its own connection and  *)
(* runs one statement followed by commit(): a transaction, which SQLite    *)
(* makes atomic and isolated (a second writer waits for the write lock,    *)
(* readers see committed data only).  One transaction is one step here;    *)
(* add_statistics is a transaction of its own, after the caller's.         *)
(*                                                                         *)
(* Callers are asyncio tasks: between two transactions of a task the       *)
(* transactions of the other tasks may run.                                *)
(*                                                                         *)
(* Values: booking_date 'YYYY-MM-DD' is the tuple <<y, m, d>>, booking_time*)
(* 'HH:MM' the tuple <<h, m>> (the order of the texts is the order of the  *)
(* tuples), a callback's date_YYYYMMDD payload the integer yyyymmdd.  Of a  *)
(* bookings row the columns id, user_id, service, booking_date and         *)
(* booking_time are kept, of a statistics row action_type and user_id, of  *)
(* a settings row key and value (the text str() gives: sign and digits).   *)
(* get_statistics_summary runs its four SELECTs one after the other, each  *)
(* a step; the other reads are one SELECT and one step.                    *)
(*                                                                         *)
(* Conversations (SpecBot, SpecOperator): the dispatcher gives an update   *)
(* to the first registered handler whose filters pass; a handler, its      *)
(* store calls included, is one step.  A handler of user u reads and       *)
(* writes the FSM of u, the buttons shown to u and the store only, so in   *)
(* SpecBot a client's conversation is followed update by update while the  *)
(* other users act through whole conversations and through the handlers    *)
(* that need no FSM state.  SpecOperator is the operator alone, sending    *)
(* what the conversation "Добавить клиента" asks for.  Of a stored phone   *)
(* or first name it is kept whether it is None, empty or a text.           *)
(*                                                                         *)
(* Notifications (SpecNotify, SpecNotifyLive): the three handlers that     *)
(* call send_admin_notification, from their store call on, every await of  *)
(* the notification a step.  Restarts (SpecInitDb): init_db on a file that *)
(* may hold data, between the store calls of a run.                        *)
(***************************************************************************)
EXTENDS Integers, Sequences, FiniteSets, TLC

\* Python's None where an integer is expected (delete_booking's user_id default)
None == -1

\* Bound: the largest id AUTOINCREMENT hands out to callers that call again and again
MaxId == 2

\* The concurrently running tasks
Procs == {1, 2}

\* user_id values a direct caller of the store passes
Users == {0, 1}

\* ids of Telegram users (callback.from_user.id is positive)
TgUsers == {1, 2}

\* confi23g.SERVICES, the service catalog
SERVICES == <<"Haircut", "Manicure">>

\* confi23g.ALL_TIME_SLOTS, the slot catalog
ALL_TIME_SLOTS == << <<10, 0>>, <<14, 0>> >>

\* payloads of the date_ buttons get_dates_keyboard offers (date.strftime('%Y%m%d'))
DateCodes == {20250310, 20250311}

Range(s) == {s[i] : i \in DOMAIN s}

\* datetime.strptime(date_str, "%Y%m%d").strftime("%Y-%m-%d")
ParseDate(code) == <<code \div 10000, (code \div 100) % 100, code % 100>>

Dates == {ParseDate(c) : c \in DateCodes}
Times == Range(ALL_TIME_SLOTS)
Services == Range(SERVICES)
BookingIds == 1..MaxId
AllUsers == Users \cup TgUsers

\* Python's None where a text or a record is expected
Missing == "None"

NoDate == <<>>
NoTime == <<>>

\* a text is the tuple of its characters; None where such a text is expected
NoText == <<"None">>

VARIABLES
    bookings,    \* committed rows of table bookings
    seq,         \* sqlite_sequence of bookings: the largest id ever assigned
    statistics,  \* committed rows of table statistics, in id order
    task,        \* per task: where it is in its store call or handler, and its locals
    fsm,         \* per Telegram user: FSM state and data (MemoryStorage)
    script,      \* per task: the one call it makes in a scenario of fixed calls
    settings,    \* committed rows of table settings
    reads,       \* per task: what its read of the store has fetched so far
    update,      \* the update handled last among those that wrote to the store or read all of it
    screen,      \* per Telegram user: the inline buttons the bot has shown them
    notify,      \* per task: where it is in send_admin_notification, and its reply
    schema,      \* the database file: its tables, and how often main has run on it
    followed     \* the user whose conversation is followed update by update

vars == <<bookings, seq, statistics, task, fsm, script, settings, reads,
          update, screen, notify, schema, followed>>

\* what the conversations, the notifications and the schema add to the state
bot == <<update, screen, notify, schema, followed>>

IdleTask ==
    [pc |-> "idle", h |-> "none", uid |-> None, service |-> "", date |-> NoDate,
     time |-> NoTime, bid |-> 0, odate |-> NoDate, otime |-> NoTime,
     rowcount |-> 0, res |-> FALSE, occupied |-> <<>>, available |-> <<>>]

\* a key of the FSM data that is not set
Unset == "unset"

\* data.get(key): None for a key that is not set
Get(value) == IF value = Unset THEN Missing ELSE value

\* state.clear(): no state, and no data.  Of the data the keys
\* reschedule_booking_id, old_service, old_date, old_time, new_booking_date,
\* the phone of old_booking, selected_service, booking_date, selected_time,
\* first_name and phone are kept; selected_date and new_date are the datetime
\* of booking_date and new_booking_date and are set with them.
\* A key that is not set reads as None (data.get): Missing, NoDate, NoTime;
\* the key phone is Unset until the operator's conversation sets it
NoState == [state |-> "none", bid |-> 0, service |-> "", old_date |-> NoDate,
            old_time |-> NoTime, new_booking_date |-> NoDate,
            old_phone |-> Missing, selected_service |-> Missing,
            booking_date |-> NoDate, selected_time |-> NoTime,
            first_name |-> Missing, phone |-> Unset]

\* no store call made
NoCall == [called |-> FALSE]

\* no update handled yet that called the store
NoUpdate ==
    [handler |-> "none", uid |-> None, data |-> [first_name |-> Missing, phone |-> Unset],
     calls |-> {}, add |-> NoCall, del |-> NoCall, removed |-> {}]

\* a task that is not in send_admin_notification and has not replied
NoNotify ==
    [pc |-> "idle", handler |-> "none", uid |-> None, date |-> NoDate, time |-> NoTime,
     result |-> FALSE, bot_instance |-> Missing, admin_id |-> None, attempt |-> 0,
     sends |-> 0, sleeps |-> 0, delivered |-> FALSE, answer |-> "none"]

\* the tables CREATE TABLE makes in init_db
Tables == {"bookings", "settings", "statistics"}

\* the file after init_db has run once on it
NewSchema == [tables |-> Tables, phone |-> TRUE, starts |-> 1, found |-> 0]

\* no update handled, nothing shown, no notification running, a new file
BotIdle ==
    /\ update = NoUpdate
    /\ screen = [u \in TgUsers |-> {}]
    /\ notify = [p \in Procs |-> NoNotify]
    /\ schema = NewSchema
    /\ followed = None

Ids(rows) == {r.id : r \in rows}

\* a Python value where sqlite3 binds an integer: bool is a subclass of int
AsInteger(v) == IF v = TRUE THEN 1 ELSE IF v = FALSE THEN 0 ELSE v

\* Python truthiness of an int-or-None: `if user_id:`
Truthy(x) == x # None /\ x # 0

----------------------------------------------------------------------------
(* Table bookings *)

\* UNIQUE(booking_date, booking_time): the insert of (d, t) raises IntegrityError
UniqueViolation_Off(rows, d, t) == FALSE

UniqueViolation(rows, d, t) ==
    \E r \in rows : r.booking_date = d /\ r.booking_time = t

\* the row INSERT INTO bookings stores; id INTEGER PRIMARY KEY AUTOINCREMENT
NewRow_LastId(last, u, s, d, t) ==
    [id |-> last, user_id |-> u, service |-> s, booking_date |-> d, booking_time |-> t]

NewRow(last, u, s, d, t) ==
    [id |-> last + 1, user_id |-> u, service |-> s, booking_date |-> d, booking_time |-> t]

\* user_id, service, booking_date and booking_time are NOT NULL
NotNullViolation(u, s, d, t) == u = None \/ s = Missing \/ d = NoDate \/ t = NoTime

\* the INSERT raises sqlite3.IntegrityError: a constraint of the table is violated
IntegrityError(rows, u, s, d, t) ==
    NotNullViolation(u, s, d, t) \/ UniqueViolation(rows, d, t)

\* the row the INSERT stores, with the columns username and phone
BookingRow(last, u, username, s, d, t, phone) ==
    [id |-> last + 1, user_id |-> u, username |-> username, service |-> s,
     booking_date |-> d, booking_time |-> t, phone |-> phone]

\* the rows delete_booking's DELETE statement matches
DeleteMatch_AnyOwner(rows, b, u) == {r \in rows : r.id = b}

DeleteMatch_OwnerAlways(rows, b, u) == {r \in rows : r.id = b /\ r.user_id = u}

DeleteMatch(rows, b, u) ==
    IF Truthy(u)
        THEN {r \in rows : r.id = b /\ r.user_id = u}
        ELSE {r \in rows : r.id = b}

\* tuples compared as the texts they stand for
RECURSIVE TupleLess(_, _)
TupleLess(a, b) ==
    IF a = <<>> \/ b = <<>> THEN a = <<>> /\ b # <<>>
    ELSE IF Head(a) # Head(b) THEN Head(a) < Head(b)
    ELSE TupleLess(Tail(a), Tail(b))

SlotLess(r1, r2) ==
    \/ TupleLess(r1.booking_date, r2.booking_date)
    \/ r1.booking_date = r2.booking_date /\ TupleLess(r1.booking_time, r2.booking_time)

\* every order in which a SELECT without ORDER BY may return the rows
RECURSIVE RowOrders(_)
RowOrders(rows) ==
    IF rows = {} THEN {<<>>}
    ELSE UNION {{<<r>> \o s : s \in RowOrders(rows \ {r})} : r \in rows}

\* SELECT booking_time FROM bookings WHERE booking_date = ?
OccupiedRows_AllDates(rows, d) == rows

OccupiedRows(rows, d) == {r \in rows : r.booking_date = d}

\* [row[0] for row in rows]
TimesOf(s) == [i \in DOMAIN s |-> s[i].booking_time]

\* ORDER BY booking_date, booking_time: every order of the rows in which no row
\* comes before a row of an earlier slot
RECURSIVE SlotOrders(_)
SlotOrders(rows) ==
    IF rows = {} THEN {<<>>}
    ELSE UNION {{<<r>> \o s : s \in SlotOrders(rows \ {r})} :
                   r \in {x \in rows : \A y \in rows : ~SlotLess(y, x)}}

\* SELECT ... FROM bookings WHERE user_id = ? ORDER BY booking_date, booking_time
GetUserBookings_ById(rows, u) ==
    LET mine == {r \in rows : r.user_id = u}
    IN  {s \in RowOrders(mine) : \A i, j \in DOMAIN s : i < j => s[i].id < s[j].id}

GetUserBookings(rows, u) == SlotOrders({r \in rows : r.user_id = u})

\* SELECT ... FROM bookings ORDER BY booking_date, booking_time
GetAllBookings(rows) == SlotOrders(rows)

\* the columns get_user_bookings selects: id, service, booking_date, booking_time
UserBookingColumns(r) ==
    [id |-> r.id, service |-> r.service,
     booking_date |-> r.booking_date, booking_time |-> r.booking_time]

\* SELECT COUNT(*) FROM bookings WHERE booking_date = ?
TodayBookings(rows, today) == Cardinality({r \in rows : r.booking_date = today})

\* SELECT COUNT(DISTINCT user_id) FROM bookings
UniqueClients(rows) == Cardinality({r.user_id : r \in rows})

\* LIMIT 3
PopularLimit == 3

\* SELECT service, COUNT(*) as count FROM bookings GROUP BY service
ServiceCounts(rows) ==
    {<<s, Cardinality({r \in rows : r.service = s})>> : s \in {r.service : r \in rows}}

\* ... ORDER BY count DESC LIMIT 3: every result the statement may give
\* (services with the same count come in any order)
PopularServices_NoLimit(rows) ==
    {q \in RowOrders(ServiceCounts(rows)) : \A i, j \in DOMAIN q : i < j => q[i][2] >= q[j][2]}

PopularServices(rows) ==
    {SubSeq(q, 1, IF Len(q) < PopularLimit THEN Len(q) ELSE PopularLimit) :
        q \in {o \in RowOrders(ServiceCounts(rows)) :
                   \A i, j \in DOMAIN o : i < j => o[i][2] >= o[j][2]}}

\* SELECT COUNT(*) FROM bookings
TotalBookings_LastId(rows) ==
    IF rows = {} THEN 0 ELSE CHOOSE n \in Ids(rows) : \A m \in Ids(rows) : m <= n

TotalBookings(rows) == Cardinality(rows)

\* SELECT ... FROM bookings WHERE id = ?, fetchone(): the rows found (none or one)
GetBookingById(rows, b) == {r \in rows : r.id = b}

\* [slot for slot in ALL_TIME_SLOTS if slot not in occupied_slots]
AvailableSlots(occupied) ==
    SelectSeq(ALL_TIME_SLOTS, LAMBDA slot : slot \notin Range(occupied))

----------------------------------------------------------------------------
(* Table settings: Database.get_admin_id, Database.set_admin_id *)

\* the decimal digits of a natural number, as str() writes them
RECURSIVE Digits(_)
Digits(n) == IF n < 10 THEN <<n>> ELSE Append(Digits(n \div 10), n % 10)

\* str(admin_id): the sign and the digits
StrOf(n) == IF n < 0 THEN [neg |-> TRUE, digits |-> Digits(0 - n)]
                   ELSE [neg |-> FALSE, digits |-> Digits(n)]

RECURSIVE DigitsValue(_)
DigitsValue(ds) ==
    IF Len(ds) = 0 THEN 0
    ELSE 10 * DigitsValue(SubSeq(ds, 1, Len(ds) - 1)) + ds[Len(ds)]

\* int(row[0])
IntOf(text) == IF text.neg THEN 0 - DigitsValue(text.digits) ELSE DigitsValue(text.digits)

\* INSERT OR REPLACE INTO settings (key, value) VALUES (?, ?); key TEXT PRIMARY KEY
UpsertSetting_Insert(rows, key, value) == rows \cup {[key |-> key, value |-> value]}

UpsertSetting(rows, key, value) ==
    {r \in rows : r.key # key} \cup {[key |-> key, value |-> value]}

\* get_admin_id: SELECT value FROM settings WHERE key = 'admin_id';
\* row = fetchone(); return int(row[0]) if row else None
GetAdminId(rows) ==
    LET found == {r \in rows : r.key = "admin_id"}
    IN  IF found = {} THEN None ELSE IntOf((CHOOSE r \in found : TRUE).value)

----------------------------------------------------------------------------
(* Database.add_booking, Database.delete_booking, Database.add_statistics *)

db == <<bookings, seq, statistics>>

\* the statistics row add_statistics(action_type, user_id, details) inserts
Event(action_type, u) == [action_type |-> action_type, user_id |-> u]

\* a task that may start a call: it never called, or its last call has returned
Ready(p) ==
    \/ task[p].pc \in {"idle", "end", "kbd_ret", "raised"}
    \/ task[p].h = "api" /\ task[p].pc \in {"add_ret", "del_ret"}
    \/ task[p].h = "reschedule_time" /\ task[p].pc = "add_ret"

\* the frame of a handler that has ended
Ended(h) == [IdleTask EXCEPT !.pc = "end", !.h = h]

\* the frame once the call has returned `res`: a direct caller is left with the
\* result only, a handler keeps its locals
Returned(f, pc, res) ==
    IF f.h = "reschedule_time" /\ pc = "del_ret"
        THEN [f EXCEPT !.pc = pc, !.res = res]
        ELSE [IdleTask EXCEPT !.pc = pc, !.h = f.h, !.res = res]

\* add_booking with the locals f: INSERT INTO bookings ...; commit().
\* IntegrityError -> return False; otherwise add_statistics is next
InsertBooking_Replace(p, f) ==
    /\ bookings' = {r \in bookings : ~(r.booking_date = f.date /\ r.booking_time = f.time)}
                       \cup {NewRow(seq, f.uid, f.service, f.date, f.time)}
    /\ seq' = seq + 1
    /\ task' = [task EXCEPT ![p] = [f EXCEPT !.pc = "add_stat"]]
    /\ UNCHANGED statistics

InsertBooking_LogRejected(p, f) ==
    IF UniqueViolation(bookings, f.date, f.time)
        THEN /\ task' = [task EXCEPT ![p] = Returned(f, "add_ret", FALSE)]
             /\ statistics' = Append(statistics, Event("booking_created", f.uid))
             /\ UNCHANGED <<bookings, seq>>
        ELSE /\ bookings' = bookings \cup {NewRow(seq, f.uid, f.service, f.date, f.time)}
             /\ seq' = seq + 1
             /\ task' = [task EXCEPT ![p] = [f EXCEPT !.pc = "add_stat"]]
             /\ UNCHANGED statistics

\* INTEGER PRIMARY KEY without AUTOINCREMENT: the id is the largest stored id plus one
InsertBooking_Rowid(p, f) ==
    LET last == IF bookings = {} THEN 0
                ELSE CHOOSE n \in Ids(bookings) : \A m \in Ids(bookings) : m <= n
    IN  IF IntegrityError(bookings, f.uid, f.service, f.date, f.time)
            THEN /\ task' = [task EXCEPT ![p] = Returned(f, "add_ret", FALSE)]
                 /\ UNCHANGED db
            ELSE /\ bookings' = bookings \cup {NewRow(last, f.uid, f.service, f.date, f.time)}
                 /\ seq' = IF last + 1 > seq THEN last + 1 ELSE seq
                 /\ task' = [task EXCEPT ![p] = [f EXCEPT !.pc = "add_stat"]]
                 /\ UNCHANGED statistics

InsertBooking(p, f) ==
    IF IntegrityError(bookings, f.uid, f.service, f.date, f.time)
        THEN /\ task' = [task EXCEPT ![p] = Returned(f, "add_ret", FALSE)]
             /\ UNCHANGED db
        ELSE /\ bookings' = bookings \cup {NewRow(seq, f.uid, f.service, f.date, f.time)}
             /\ seq' = seq + 1
             /\ task' = [task EXCEPT ![p] = [f EXCEPT !.pc = "add_stat"]]
             /\ UNCHANGED statistics

\* delete_booking with the locals f: DELETE FROM bookings WHERE ...; commit();
\* deleted = cursor.rowcount > 0; if deleted, add_statistics is next, else return False
DeleteBooking_AlwaysDeleted(p, f) ==
    LET hit == DeleteMatch(bookings, f.bid, f.uid)
    IN  /\ bookings' = bookings \ hit
        /\ task' = [task EXCEPT ![p] = [f EXCEPT !.pc = "del_stat", !.rowcount = Cardinality(hit)]]
        /\ UNCHANGED <<seq, statistics>>

DeleteBooking_NotCommitted(p, f) ==
    LET hit == DeleteMatch(bookings, f.bid, f.uid)
    IN  /\ bookings' = bookings
        /\ task' = [task EXCEPT ![p] =
               IF Cardinality(hit) > 0
                   THEN [f EXCEPT !.pc = "del_stat", !.rowcount = Cardinality(hit)]
                   ELSE Returned(f, "del_ret", FALSE)]
        /\ UNCHANGED <<seq, statistics>>

DeleteBooking(p, f) ==
    LET hit == DeleteMatch(bookings, f.bid, f.uid)
    IN  /\ bookings' = bookings \ hit
        /\ task' = [task EXCEPT ![p] =
               IF Cardinality(hit) > 0
                   THEN [f EXCEPT !.pc = "del_stat", !.rowcount = Cardinality(hit)]
                   ELSE Returned(f, "del_ret", FALSE)]
        /\ UNCHANGED <<seq, statistics>>

\* the locals of db.add_booking(user_id, ..., service, booking_date, booking_time)
AddLocals(u, s, d, t) ==
    [IdleTask EXCEPT !.h = "api", !.uid = u, !.service = s, !.date = d, !.time = t]

\* the locals of db.delete_booking(booking_id, user_id)
DeleteLocals(b, u) == [IdleTask EXCEPT !.h = "api", !.bid = b, !.uid = u]

\* a caller runs db.add_booking(...)
ApiAddBooking(p, u, s, d, t) ==
    /\ Ready(p)
    /\ InsertBooking(p, AddLocals(u, s, d, t))
    /\ UNCHANGED <<fsm, script>>

\* add_booking: await self.add_statistics('booking_created', user_id,
\* f'{service} on {booking_date} {booking_time}'); return True.
\* In process_reschedule_time, await state.clear() follows the return at once
AddStatistics_Replace(p) ==
    /\ task[p].pc = "add_stat"
    /\ statistics' = IF statistics = <<>>
                         THEN <<Event("booking_created", task[p].uid)>>
                         ELSE [statistics EXCEPT ![Len(statistics)] =
                                  Event("booking_created", task[p].uid)]
    /\ task' = [task EXCEPT ![p] = Returned(task[p], "add_ret", TRUE)]
    /\ fsm' = IF task[p].h = "reschedule_time"
                  THEN [fsm EXCEPT ![task[p].uid] = NoState]
                  ELSE fsm
    /\ UNCHANGED <<bookings, seq, script>>

AddStatistics_NoActor(p) ==
    /\ task[p].pc = "add_stat"
    /\ statistics' = Append(statistics, Event("booking_created", None))
    /\ task' = [task EXCEPT ![p] = Returned(task[p], "add_ret", TRUE)]
    /\ fsm' = IF task[p].h = "reschedule_time"
                  THEN [fsm EXCEPT ![task[p].uid] = NoState]
                  ELSE fsm
    /\ UNCHANGED <<bookings, seq, script>>

AddStatistics(p) ==
    /\ task[p].pc = "add_stat"
    /\ statistics' = Append(statistics,
           Event("booking_created", task[p].uid))
    /\ task' = [task EXCEPT ![p] = Returned(task[p], "add_ret", TRUE)]
    /\ fsm' = IF task[p].h = "reschedule_time"
                  THEN [fsm EXCEPT ![task[p].uid] = NoState]
                  ELSE fsm
    /\ UNCHANGED <<bookings, seq, script>>

\* a caller runs db.delete_booking(booking_id, user_id)
ApiDeleteBooking(p, b, u) ==
    /\ Ready(p)
    /\ DeleteBooking(p, DeleteLocals(b, u))
    /\ UNCHANGED <<fsm, script>>

\* delete_booking: await self.add_statistics('booking_deleted', user_id,
\* f'booking_id={booking_id}'); return deleted
DelStatistics_Silent(p) ==
    /\ task[p].pc = "del_stat"
    /\ task' = [task EXCEPT ![p] = Returned(task[p], "del_ret", TRUE)]
    /\ UNCHANGED <<bookings, seq, statistics, fsm, script>>

DelStatistics(p) ==
    /\ task[p].pc = "del_stat"
    /\ statistics' = Append(statistics,
           Event("booking_deleted", task[p].uid))
    /\ task' = [task EXCEPT ![p] = Returned(task[p], "del_ret", TRUE)]
    /\ UNCHANGED <<bookings, seq, fsm, script>>

----------------------------------------------------------------------------
(* Bot handlers *)

\* get_time_keyboard(booking_date):
\* occupied_slots = await db.get_occupied_slots(booking_date);
\* available_slots = [slot for slot in ALL_TIME_SLOTS if slot not in occupied_slots]
TimeKeyboard(p, d) ==
    \E rows \in RowOrders(OccupiedRows(bookings, d)) :
        task' = [task EXCEPT ![p] =
            [IdleTask EXCEPT !.pc = "kbd_ret", !.h = "time_keyboard", !.date = d,
                             !.occupied = TimesOf(rows),
                             !.available = AvailableSlots(TimesOf(rows))]]

\* a handler builds the time keyboard of a date
GetTimeKeyboard(p, d) ==
    /\ Ready(p)
    /\ TimeKeyboard(p, d)
    /\ UNCHANGED <<db, fsm, script>>

\* process_reschedule_booking: callback reschedule_<booking_id> from user u;
\* if not booking or booking['user_id'] != user_id: answer "not found", return
ProcessRescheduleBooking(p, u, b) ==
    /\ Ready(p)
    /\ LET found == {r \in GetBookingById(bookings, b) : r.user_id = u}
       IN  IF found = {}
               THEN UNCHANGED fsm
               ELSE \E booking \in found :
                        fsm' = [fsm EXCEPT ![u] =
                            [fsm[u] EXCEPT !.state = "RescheduleStates:choosing_date",
                                           !.bid = b,
                                           !.service = booking.service,
                                           !.old_date = booking.booking_date,
                                           !.old_time = booking.booking_time]]
    /\ task' = [task EXCEPT ![p] = Ended("reschedule_booking")]
    /\ UNCHANGED <<db, script>>

\* process_reschedule_date: callback date_<YYYYMMDD> from user u in choosing_date
ProcessRescheduleDate(p, u, code) ==
    /\ Ready(p)
    /\ fsm[u].state = "RescheduleStates:choosing_date"
    /\ fsm' = [fsm EXCEPT ![u].state = "RescheduleStates:choosing_time",
                          ![u].new_booking_date = ParseDate(code)]
    /\ TimeKeyboard(p, ParseDate(code))
    /\ UNCHANGED <<db, script>>

\* the locals of process_reschedule_time for callback time_<HH:MM> from user u
RescheduleLocals(u, t) ==
    [IdleTask EXCEPT !.h = "reschedule_time", !.uid = u, !.bid = fsm[u].bid,
                     !.service = fsm[u].service,
                     !.odate = fsm[u].old_date, !.otime = fsm[u].old_time,
                     !.date = fsm[u].new_booking_date, !.time = t]

\* process_reschedule_time, up to deleted = await db.delete_booking(booking_id, user_id)
ProcessRescheduleTime_Update(p, u, t) ==
    /\ Ready(p)
    /\ fsm[u].state = "RescheduleStates:choosing_time"
    /\ LET f == RescheduleLocals(u, t)
           hit == DeleteMatch(bookings, f.bid, f.uid)
       IN  /\ bookings' = (bookings \ hit) \cup
                   {[r EXCEPT !.booking_date = f.date, !.booking_time = f.time] : r \in hit}
           /\ task' = [task EXCEPT ![p] = Returned(f, "add_ret", hit # {})]
    /\ fsm' = [fsm EXCEPT ![u] = NoState]
    /\ UNCHANGED <<seq, statistics, script>>

ProcessRescheduleTime(p, u, t) ==
    /\ Ready(p)
    /\ fsm[u].state = "RescheduleStates:choosing_time"
    /\ DeleteBooking(p, RescheduleLocals(u, t))
    /\ UNCHANGED <<fsm, script>>

\* process_reschedule_time without `if not deleted: ... return`
RescheduleNotDeleted_Add(p) ==
    /\ task[p].h = "reschedule_time"
    /\ task[p].pc = "del_ret"
    /\ ~task[p].res
    /\ InsertBooking(p, task[p])
    /\ UNCHANGED <<fsm, script>>

\* process_reschedule_time, delete_booking returned False:
\* await callback.answer("Ошибка"); await state.clear(); return
RescheduleNotDeleted(p) ==
    /\ task[p].h = "reschedule_time"
    /\ task[p].pc = "del_ret"
    /\ ~task[p].res
    /\ task' = [task EXCEPT ![p] = Ended("reschedule_time")]
    /\ fsm' = [fsm EXCEPT ![task[p].uid] = NoState]
    /\ UNCHANGED <<db, script>>

\* process_reschedule_time, delete_booking returned True:
\* success = await db.add_booking(user_id, ..., service, new_booking_date, new_time);
\* on False, await state.clear() follows the return at once
RescheduleAdd_Restore(p) ==
    /\ task[p].h = "reschedule_time"
    /\ task[p].pc = "del_ret"
    /\ task[p].res
    /\ IF UniqueViolation(bookings, task[p].date, task[p].time)
           THEN /\ bookings' = bookings \cup
                       {[NewRow(seq, task[p].uid, task[p].service, task[p].odate, task[p].otime)
                            EXCEPT !.id = task[p].bid]}
                /\ task' = [task EXCEPT ![p] = Returned(task[p], "add_ret", FALSE)]
                /\ fsm' = [fsm EXCEPT ![task[p].uid] = NoState]
                /\ UNCHANGED <<seq, statistics>>
           ELSE /\ InsertBooking(p, task[p])
                /\ UNCHANGED fsm
    /\ UNCHANGED script

RescheduleAdd(p) ==
    /\ task[p].h = "reschedule_time"
    /\ task[p].pc = "del_ret"
    /\ task[p].res
    /\ InsertBooking(p, task[p])
    /\ fsm' = IF UniqueViolation(bookings, task[p].date, task[p].time)
                  THEN [fsm EXCEPT ![task[p].uid] = NoState]
                  ELSE fsm
    /\ UNCHANGED script

----------------------------------------------------------------------------
(* Callers of the store, any interleaving *)

NoScript == [op |-> "none", f |-> IdleTask, code |-> 0]

\* a task that has read nothing
NoRead ==
    [op |-> "none", pc |-> "none", uid |-> None, rows |-> <<>>, total_bookings |-> 0,
     today_bookings |-> 0, unique_clients |-> 0, popular_services |-> <<>>]

\* the store after init_db on a new file; no task running, no conversation open
Init ==
    /\ bookings = {}
    /\ seq = 0
    /\ statistics = <<>>
    /\ task = [p \in Procs |-> IdleTask]
    /\ fsm = [u \in TgUsers |-> NoState]
    /\ script = [p \in Procs |-> NoScript]
    /\ settings = {}
    /\ reads = [p \in Procs |-> NoRead]
    /\ BotIdle

\* two tasks that write to the store again and again, in any interleaving
Next ==
    /\ \E p \in Procs :
           \/ /\ seq < MaxId
              /\ \E u \in Users, d \in Dates, t \in Times :
                     ApiAddBooking(p, u, SERVICES[1], d, t)
           \/ AddStatistics(p)
           \/ \E b \in BookingIds, u \in Users \cup {None} : ApiDeleteBooking(p, b, u)
           \/ DelStatistics(p)
    /\ UNCHANGED <<settings, reads, bot>>

Spec == Init /\ [][Next]_vars

----------------------------------------------------------------------------
(* Callers of the store, any interleaving, with persistence faults *)

\* the frame of a call that an exception has ended
Raised(h) == [IdleTask EXCEPT !.pc = "raised", !.h = h]

\* add_booking or delete_booking: aiosqlite.connect, execute or commit raises
\* (not IntegrityError); the connection closes without commit, nothing is stored,
\* and the exception leaves the call
CallFault(p) ==
    /\ Ready(p)
    /\ task' = [task EXCEPT ![p] = Raised("api")]
    /\ UNCHANGED <<db, fsm, script>>

\* add_booking or delete_booking, after its commit: add_statistics raises; the
\* exception leaves the call (add_booking catches IntegrityError only)
StatisticsFault(p) ==
    /\ task[p].pc \in {"add_stat", "del_stat"}
    /\ task' = [task EXCEPT ![p] = Raised(task[p].h)]
    /\ UNCHANGED <<db, fsm, script>>

NextFaults ==
    \/ Next
    \/ /\ \E p \in Procs : CallFault(p) \/ StatisticsFault(p)
       /\ UNCHANGED <<settings, reads, bot>>

SpecFaults == Init /\ [][NextFaults]_vars

----------------------------------------------------------------------------
(* Two tasks, each with one call or one conversation to make, against a    *)
(* store that holds one booking                                            *)

FirstDate == ParseDate(CHOOSE c \in DateCodes : \A c2 \in DateCodes : c <= c2)
FirstTime == ALL_TIME_SLOTS[1]

\* what a task may be given to do: a store call, a time keyboard, or the
\* reschedule conversation of user u for booking 1, stored as `b0`
Scripts(b0) ==
    {[op |-> "add", f |-> AddLocals(u, s, d, t), code |-> 0] :
        u \in AllUsers, s \in Services, d \in Dates, t \in Times}
    \cup {[op |-> "delete", f |-> DeleteLocals(b0.id, u), code |-> 0] :
        u \in AllUsers \cup {None}}
    \cup {[op |-> "time_keyboard",
           f |-> [IdleTask EXCEPT !.h = "time_keyboard", !.date = d], code |-> 0] :
        d \in Dates}
    \cup {[op |-> "reschedule",
           f |-> [IdleTask EXCEPT !.h = "reschedule_time", !.uid = u, !.bid = b0.id,
                                  !.service = b0.service,
                                  !.odate = b0.booking_date, !.otime = b0.booking_time,
                                  !.date = ParseDate(c), !.time = t],
           code |-> c] :
        u \in TgUsers, c \in DateCodes, t \in Times}
    \cup {NoScript}

\* the store after one add_booking has returned True
InitCalls ==
    \E u \in AllUsers, s \in Services :
        LET b0 == NewRow(0, u, s, FirstDate, FirstTime)
        IN  /\ bookings = {b0}
            /\ seq = b0.id
            /\ statistics = <<Event("booking_created", u)>>
            /\ task = [p \in Procs |-> IdleTask]
            /\ fsm = [v \in TgUsers |-> NoState]
            /\ script \in [Procs -> Scripts(b0)]
            /\ settings = {}
            /\ reads = [p \in Procs |-> NoRead]
            /\ BotIdle

ScriptAdd(p) ==
    /\ script[p].op = "add"
    /\ task[p].pc = "idle"
    /\ ApiAddBooking(p, script[p].f.uid, script[p].f.service,
                     script[p].f.date, script[p].f.time)

ScriptDelete(p) ==
    /\ script[p].op = "delete"
    /\ task[p].pc = "idle"
    /\ ApiDeleteBooking(p, script[p].f.bid, script[p].f.uid)

ScriptKeyboard(p) ==
    /\ script[p].op = "time_keyboard"
    /\ task[p].pc = "idle"
    /\ GetTimeKeyboard(p, script[p].f.date)

\* the user presses "reschedule" on the booking, then a date, then a time
ScriptReschedule(p) ==
    /\ script[p].op = "reschedule"
    /\ \/ /\ task[p].pc = "idle"
          /\ ProcessRescheduleBooking(p, script[p].f.uid, script[p].f.bid)
       \/ /\ task[p].pc = "end"
          /\ task[p].h = "reschedule_booking"
          /\ ProcessRescheduleDate(p, script[p].f.uid, script[p].code)
       \/ /\ task[p].pc = "kbd_ret"
          /\ ProcessRescheduleTime(p, script[p].f.uid, script[p].f.time)

NextCalls ==
    /\ \E p \in Procs :
           \/ ScriptAdd(p)
           \/ AddStatistics(p)
           \/ ScriptDelete(p)
           \/ DelStatistics(p)
           \/ ScriptKeyboard(p)
           \/ ScriptReschedule(p)
           \/ RescheduleNotDeleted(p)
           \/ RescheduleAdd(p)
    /\ UNCHANGED <<settings, reads, bot>>

SpecCalls == InitCalls /\ [][NextCalls]_vars

----------------------------------------------------------------------------
(* The calls and conversations above, and set_admin_id at any moment *)

\* values of ADMIN_ID a start of the bot passes to set_admin_id
AdminIds == {0, 7, -12}

\* set_admin_id(admin_id): one INSERT OR REPLACE and commit
SetAdminId(admin_id) ==
    /\ settings' = UpsertSetting(settings, "admin_id", StrOf(admin_id))
    /\ UNCHANGED <<db, task, fsm, script, reads, bot>>

NextSettings ==
    \/ NextCalls
    \/ \E admin_id \in AdminIds : SetAdminId(admin_id)

SpecSettings == InitCalls /\ [][NextSettings]_vars

----------------------------------------------------------------------------
(* The read views, on stores of many shapes *)

\* Bound: the most bookings of one service in a store drawn for the summary
MaxPerService == 3

\* service names of the bookings drawn for the summary (service is free TEXT)
SummaryServices == <<"Haircut", "Manicure", "Pedicure", "Coloring">>

SummaryDateCodes == DateCodes \cup {20250312}
SummaryDates == {ParseDate(c) : c \in SummaryDateCodes}

SetToSeq(S) == CHOOSE s \in [1..Cardinality(S) -> S] : Range(s) = S

\* the slots of the drawn stores, in some order
ViewSlots == SetToSeq(Dates \X Times)
SummarySlots == SetToSeq(SummaryDates \X Times)

\* a slot nobody has booked
Free == [user_id |-> None, service |-> ""]

\* the store after add_booking has returned True for every booked slot of
\* `cell`, the last slot first: ids run against the order of the slots
DrawnStore(slots, cell) ==
    {[id |-> Cardinality({j \in DOMAIN slots : j >= k /\ cell[j] # Free}),
      user_id |-> cell[k].user_id, service |-> cell[k].service,
      booking_date |-> slots[k][1], booking_time |-> slots[k][2]] :
        k \in {j \in DOMAIN slots : cell[j] # Free}}

\* the statistics rows of that store: one booking_created per booking, in id order
DrawnLog(rows) ==
    [i \in 1..Cardinality(rows) |->
        Event("booking_created", (CHOOSE r \in rows : r.id = i).user_id)]

\* bookings of the first i services, n[j] of service j
RECURSIVE Cum(_, _)
Cum(n, i) == IF i = 0 THEN 0 ELSE n[i] + Cum(n, i - 1)

\* stores with bookings of several clients
ViewStores ==
    {DrawnStore(ViewSlots, cell) :
        cell \in [DOMAIN ViewSlots ->
                     {Free} \cup {[user_id |-> u, service |-> SERVICES[1]] : u \in AllUsers}]}

\* stores with n[j] bookings of service j
SummaryStores ==
    {DrawnStore(SummarySlots,
                [k \in DOMAIN SummarySlots |->
                    IF k <= Cum(n, Len(SummaryServices))
                        THEN [user_id |-> 1,
                              service |-> SummaryServices[
                                  CHOOSE i \in DOMAIN SummaryServices :
                                      Cum(n, i - 1) < k /\ k <= Cum(n, i)]]
                        ELSE Free]) :
        n \in {m \in [DOMAIN SummaryServices -> 0..MaxPerService] :
                  Cum(m, Len(SummaryServices)) <= Len(SummarySlots)}}

InitReads ==
    /\ bookings \in ViewStores \cup SummaryStores
    /\ seq = Cardinality(bookings)
    /\ statistics = DrawnLog(bookings)
    /\ task = [p \in Procs |-> IdleTask]
    /\ fsm = [u \in TgUsers |-> NoState]
    /\ script = [p \in Procs |-> NoScript]
    /\ settings = {}
    /\ reads = [p \in Procs |-> NoRead]
    /\ BotIdle

\* a task that is not in the middle of get_statistics_summary
NotReading(p) == reads[p].pc \in {"none", "done"}

\* get_all_bookings()
ReadAllBookings(p) ==
    /\ NotReading(p)
    /\ \E list \in GetAllBookings(bookings) :
           reads' = [reads EXCEPT ![p] =
               [NoRead EXCEPT !.op = "get_all_bookings", !.pc = "done", !.rows = list]]
    /\ UNCHANGED <<db, task, fsm, script, settings, bot>>

\* get_user_bookings(user_id)
ReadUserBookings(p, u) ==
    /\ NotReading(p)
    /\ \E list \in GetUserBookings(bookings, u) :
           reads' = [reads EXCEPT ![p] =
               [NoRead EXCEPT !.op = "get_user_bookings", !.pc = "done", !.uid = u,
                              !.rows = [i \in DOMAIN list |-> UserBookingColumns(list[i])]]]
    /\ UNCHANGED <<db, task, fsm, script, settings, bot>>

\* get_statistics_summary: SELECT COUNT(*) FROM bookings
SummaryTotal(p) ==
    /\ NotReading(p)
    /\ reads' = [reads EXCEPT ![p] =
           [NoRead EXCEPT !.op = "get_statistics_summary", !.pc = "total",
                          !.total_bookings = TotalBookings(bookings)]]
    /\ UNCHANGED <<db, task, fsm, script, settings, bot>>

\* get_statistics_summary: today = datetime.now()...; the count of today's bookings
SummaryToday(p, today) ==
    /\ reads[p].pc = "total"
    /\ reads' = [reads EXCEPT ![p].pc = "today",
                              ![p].today_bookings = TodayBookings(bookings, today)]
    /\ UNCHANGED <<db, task, fsm, script, settings, bot>>

\* get_statistics_summary: SELECT COUNT(DISTINCT user_id) FROM bookings
SummaryUnique(p) ==
    /\ reads[p].pc = "today"
    /\ reads' = [reads EXCEPT ![p].pc = "unique",
                              ![p].unique_clients = UniqueClients(bookings)]
    /\ UNCHANGED <<db, task, fsm, script, settings, bot>>

\* get_statistics_summary: the popular services; return
SummaryPopular(p) ==
    /\ reads[p].pc = "unique"
    /\ \E popular \in PopularServices(bookings) :
           reads' = [reads EXCEPT ![p].pc = "done", ![p].popular_services = popular]
    /\ UNCHANGED <<db, task, fsm, script, settings, bot>>

NextReads ==
    \E p \in Procs :
        \/ ReadAllBookings(p)
        \/ \E u \in AllUsers : ReadUserBookings(p, u)
        \/ SummaryTotal(p)
        \/ \E today \in SummaryDates : SummaryToday(p, today)
        \/ SummaryUnique(p)
        \/ SummaryPopular(p)

SpecReads == InitReads /\ [][NextReads]_vars

----------------------------------------------------------------------------
(* get_statistics_summary while other tasks write: its four SELECTs are    *)
(* four statements on one connection with no transaction around them, and  *)
(* each is awaited, so the writes of the other tasks come in between.      *)
(* A task is one handler: admin_analytics, which calls the summary once,   *)
(* or a handler that writes.                                               *)

\* the task of a handler that writes
Writes(p) == reads[p].pc = "none"

\* the task of admin_analytics, before its call
Analytics(p) == task[p].pc = "idle" /\ reads[p].pc = "none"

NextSummary ==
    \/ /\ \E p \in Procs :
              /\ Writes(p)
              /\ \/ /\ seq < MaxId
                    /\ \E u \in Users, d \in Dates, t \in Times :
                           ApiAddBooking(p, u, SERVICES[1], d, t)
                 \/ AddStatistics(p)
                 \/ \E b \in BookingIds, u \in Users \cup {None} : ApiDeleteBooking(p, b, u)
                 \/ DelStatistics(p)
       /\ UNCHANGED <<settings, reads, bot>>
    \/ \E p \in Procs :
           \/ Analytics(p) /\ SummaryTotal(p)
           \/ \E today \in Dates : SummaryToday(p, today)
           \/ SummaryUnique(p)
           \/ SummaryPopular(p)

SpecSummary == Init /\ [][NextSummary]_vars

----------------------------------------------------------------------------
(* Conversations: the dispatcher and the handlers of Beauty_salon_bot.py.   *)
(* An update is handled in one step, its store calls included; the          *)
(* interleavings of store calls are those of the specifications above.      *)
(* A text is the tuple of its characters.  show_reviews, show_info and      *)
(* process_no_slots answer and change nothing; they are left out.           *)

\* ADMIN_ID of the configuration
ADMIN_ID == 1

\* is_admin(user_id)
is_admin_Anyone(user_id) == TRUE

is_admin(user_id) == user_id = ADMIN_ID

\* user.username or "" of the two Telegram users
Username(u) == IF u = 1 THEN "" ELSE "client"

\* generate_random_user_id(): random.randint(900000000, 999999999)
GeneratedIds == {900000000, 999999999}

Space == " "

\* str.strip()
RECURSIVE LStrip(_)
LStrip(text) == IF text # <<>> /\ Head(text) = Space THEN LStrip(Tail(text)) ELSE text

RECURSIVE RStrip(_)
RStrip(text) ==
    IF text # <<>> /\ text[Len(text)] = Space
        THEN RStrip(SubSeq(text, 1, Len(text) - 1))
        ELSE text

Strip(text) == RStrip(LStrip(text))

\* if not phone.startswith('+'): phone = f"+{phone}"
WithPlus(phone) ==
    IF phone # <<>> /\ Head(phone) = "+" THEN phone ELSE <<"+">> \o phone

\* process_phone_text: if len(phone) < 10: "Номер слишком короткий"
MinPhoneLen == 10

\* of a phone and of a first name the store and the FSM data keep whether it
\* is None, the empty text, or a text with characters
Kept(text) == IF text = NoText THEN "None" ELSE IF text = <<>> THEN "" ELSE "text"

\* the first of text.split()
RECURSIVE Word(_)
Word(text) ==
    IF text = <<>> \/ Head(text) = Space THEN <<>> ELSE <<Head(text)>> \o Word(Tail(text))

\* name_parts = message.text.strip().split();
\* first_name = name_parts[0] if name_parts else "Клиент"
FirstName(text) ==
    IF Strip(text) = <<>> THEN <<"C", "l", "i", "e", "n", "t">> ELSE Word(Strip(text))

DigitChars == <<"0", "1", "2", "3", "4", "5", "6", "7", "8", "9">>

\* str(n) of a natural number
TextOf(n) == [i \in 1..Len(Digits(n)) |-> DigitChars[Digits(n)[i] + 1]]

\* int(message.text) of an unsigned decimal text: the number, or ValueError.
\* A text of ten digits or more is a number above every booking id: its first
\* nine digits and a zero stand for it
ParseInt(text) ==
    LET s == Strip(text)
        head == IF Len(s) > 9 THEN SubSeq(s, 1, 9) ELSE s
    IN  IF s # <<>> /\ \A i \in 1..Len(s) : s[i] \in Range(DigitChars)
            THEN [ok |-> TRUE,
                  value |-> DigitsValue([i \in 1..Len(head) |->
                                (CHOOSE k \in 1..10 : DigitChars[k] = head[i]) - 1])]
            ELSE [ok |-> FALSE, value |-> 0]

\* CommandStart()
TextStart == <<"/", "s", "t", "a", "r", "t">>

\* the button "Режим клиента"
TextClientMode == <<"C", "l", "i", "e", "n", "t", " ", "m", "o", "d", "e">>

\* Command("admin")
TextAdmin == <<"/", "a", "d", "m", "i", "n">>

\* the button "Записаться"
TextBook == <<"B", "o", "o", "k">>

\* the button "Мои записи"
TextMyBookings == <<"M", "y", " ", "b", "o", "o", "k", "i", "n", "g", "s">>

\* the button "Назад" of the phone keyboard
TextBack == <<"<", " ", "B", "a", "c", "k">>

\* the button "Добавить клиента"
TextAddClient == <<"A", "d", "d", " ", "a", " ", "c", "l", "i", "e", "n", "t">>

\* the button "Удалить клиента"
TextDeleteClient == <<"x", " ", "D", "e", "l", "e", "t", "e", " ", "a", " ", "c", "l", "i", "e", "n", "t">>

\* the button "Просмотр клиентов"
TextViewClients == <<"V", "i", "e", "w", " ", "c", "l", "i", "e", "n", "t", "s">>

\* the button "Аналитика"
TextAnalytics == <<"A", "n", "a", "l", "y", "t", "i", "c", "s", "!">>

\* a phone number typed without the plus, after a blank
TextPhone == <<" ", "8", "9", "0", "0", "1", "2", "3", "4", "5", "6">>

\* the texts the users send: the buttons and commands, a booking id, a phone
Texts ==
    {TextStart, TextClientMode, TextAdmin, TextBook, TextMyBookings, TextBack,
     TextAddClient, TextDeleteClient, TextViewClients, TextAnalytics, TextPhone}
        \cup {TextOf(b) : b \in BookingIds}

\* message.contact.phone_number of the contacts the users share
Contacts == {<<"7", "9", "0", "0", "1", "2", "3", "4", "5", "6", "7">>}

\* the buttons of the inline keyboards: get_services_keyboard, get_dates_keyboard,
\* get_time_keyboard (each with_back or not), get_bookings_keyboard and the
\* keyboards of the operator's conversations
Buttons(keyboard) ==
    CASE keyboard = "services_back" -> {"service", "back_to_start"}
      [] keyboard = "services" -> {"service"}
      [] keyboard = "dates_back" -> {"date", "back_to_service"}
      [] keyboard = "dates" -> {"date"}
      [] keyboard = "times_back" -> {"time", "back_to_date"}
      [] keyboard = "times" -> {"time"}
      [] keyboard = "bookings" -> {"cancel", "reschedule"}
      [] keyboard = "admin_cancel" -> {"admin_cancel"}
      [] keyboard = "skip_phone" -> {"skip_phone", "admin_cancel"}

\* the buttons whose handlers run in every state.  A date_, time_ or skip_phone
\* button is handled only in a state that is entered by showing a keyboard with
\* it; the buttons cancel_<id> and reschedule_<id> are taken with every id
Unfiltered == {"service", "back_to_start", "back_to_service", "back_to_date",
               "admin_cancel"}

\* user u has a message with this button
OnScreen(u, name) == name \in Unfiltered => name \in screen[u]

\* the bot sends or edits a message with this keyboard
Show(u, keyboard) == [screen EXCEPT ![u] = @ \cup (Buttons(keyboard) \cap Unfiltered)]

\* the three tables a handler's store calls work on, one after the other
Store == [bookings |-> bookings, seq |-> seq, statistics |-> statistics]

Commit(S) ==
    /\ bookings' = S.bookings
    /\ seq' = S.seq
    /\ statistics' = S.statistics

\* Database.add_booking run to its return: the INSERT, and add_statistics
AddBookingTo(S, u, username, s, d, t, phone) ==
    IF IntegrityError(S.bookings, u, s, d, t)
        THEN S
        ELSE [bookings |-> S.bookings \cup {BookingRow(S.seq, u, username, s, d, t, phone)},
              seq |-> S.seq + 1,
              statistics |-> Append(S.statistics, Event("booking_created", u))]

\* what add_booking returns: False on IntegrityError, else True
AddBookingResult(S, u, s, d, t) == ~IntegrityError(S.bookings, u, s, d, t)

\* Database.delete_booking run to its return: the DELETE, and add_statistics
DeleteBookingFrom(S, b, u) ==
    IF DeleteMatch(S.bookings, b, u) = {}
        THEN S
        ELSE [S EXCEPT !.bookings = @ \ DeleteMatch(S.bookings, b, u),
                       !.statistics = Append(@, Event("booking_deleted", u))]

\* the call db.add_booking(...) a handler makes on the store S, and its result
AddCall(by, S, u, username, s, d, t, phone) ==
    [called |-> TRUE, by |-> by, user_id |-> u, username |-> username, service |-> s,
     booking_date |-> d, booking_time |-> t, phone |-> phone,
     free |-> ~UniqueViolation(S.bookings, d, t),
     res |-> AddBookingResult(S, u, s, d, t)]

\* the call db.delete_booking(booking_id, user_id) a handler makes
DeleteCall(b, u) == [called |-> TRUE, booking_id |-> b, user_id |-> u]

\* the keys of the data that the operator's conversation "Добавить клиента" sets
OperatorKeys(data) == [first_name |-> data.first_name, phone |-> data.phone]

\* the update just handled, when its handler called add_booking, delete_booking,
\* get_all_bookings or get_statistics_summary: the handler, the sender, the
\* operator's keys of the sender's data, these calls, the add_booking and the
\* delete_booking call, and the rows removed
Handled(handler, u, calls, add, del, removed) ==
    [handler |-> handler, uid |-> u, data |-> OperatorKeys(fsm[u]),
     calls |-> calls, add |-> add, del |-> del, removed |-> removed]

\* await state.clear()
Clear(u) == [fsm EXCEPT ![u] = NoState]

\* the handler a message is routed to: the first registered handler whose
\* filters pass.  text is NoText for a message without text (a contact)
MessageRoute(state, text, contact) ==
    IF text = TextStart THEN "cmd_start"
    ELSE IF text = TextClientMode THEN "switch_to_client_mode"
    ELSE IF text = TextAdmin THEN "cmd_admin"
    ELSE IF text = TextBook THEN "start_booking"
    ELSE IF text = TextMyBookings THEN "show_my_bookings"
    ELSE IF text = TextBack /\ state = "BookingStates:entering_phone" THEN "back_from_phone"
    ELSE IF contact /\ state = "BookingStates:entering_phone" THEN "process_phone_contact"
    ELSE IF ~contact /\ state = "BookingStates:entering_phone" THEN "process_phone_text"
    ELSE IF text = TextAddClient THEN "admin_add_client_start"
    ELSE IF state = "AdminAddClientStates:entering_name" THEN "admin_add_client_name"
    ELSE IF state = "AdminAddClientStates:entering_phone" THEN "admin_add_client_phone"
    ELSE IF text = TextDeleteClient THEN "admin_delete_client_start"
    ELSE IF state = "AdminDeleteClientStates:entering_booking_id"
        THEN "admin_delete_client_execute"
    ELSE IF text = TextViewClients THEN "admin_view_clients"
    ELSE IF text = TextAnalytics THEN "admin_analytics"
    ELSE "unhandled"

\* the handler a callback query is routed to; name is the callback data up to
\* its argument
CallbackRoute(state, name) ==
    IF name \in {"back_to_start", "back_to_service", "back_to_date"} THEN name
    ELSE IF name = "service" THEN "process_service_selection"
    ELSE IF name = "date" /\ state = "BookingStates:choosing_date"
        THEN "process_date_selection"
    ELSE IF name = "time" /\ state = "BookingStates:choosing_time"
        THEN "process_time_selection"
    ELSE IF name = "cancel" THEN "process_cancel_booking"
    ELSE IF name = "reschedule" THEN "process_reschedule_booking"
    ELSE IF name = "date" /\ state = "RescheduleStates:choosing_date"
        THEN "process_reschedule_date"
    ELSE IF name = "time" /\ state = "RescheduleStates:choosing_time"
        THEN "process_reschedule_time"
    ELSE IF name = "admin_cancel" THEN "admin_cancel"
    ELSE IF name = "skip_phone" /\ state = "AdminAddClientStates:entering_phone"
        THEN "admin_skip_phone"
    ELSE IF name = "service" /\ state = "AdminAddClientStates:choosing_service"
        THEN "admin_add_client_service"
    ELSE IF name = "date" /\ state = "AdminAddClientStates:choosing_date"
        THEN "admin_add_client_date"
    ELSE IF name = "time" /\ state = "AdminAddClientStates:choosing_time"
        THEN "admin_add_client_time"
    ELSE "unhandled"

\* a handler that answers and leaves the conversation and the store alone, or
\* that raises before it changes them
Answered(handler, u, calls) ==
    /\ update' = IF calls = {} THEN update ELSE Handled(handler, u, calls, NoCall, NoCall, {})
    /\ UNCHANGED <<db, fsm, screen>>

\* cmd_start, and switch_to_client_mode and cmd_admin for the operator:
\* await state.clear(), and the reply keyboard
cmd_start(handler, u) ==
    /\ fsm' = Clear(u)
    /\ UNCHANGED update
    /\ UNCHANGED <<db, screen>>

\* switch_to_client_mode: if not is_admin(...): return
switch_to_client_mode(u) ==
    IF is_admin(u) THEN cmd_start("switch_to_client_mode", u)
    ELSE Answered("switch_to_client_mode", u, {})

\* cmd_admin: if not is_admin(...): answer "нет прав"; return
cmd_admin(u) ==
    IF is_admin(u) THEN cmd_start("cmd_admin", u) ELSE Answered("cmd_admin", u, {})

\* start_booking: set_state(choosing_service); the services keyboard in a new message
start_booking(u) ==
    /\ fsm' = [fsm EXCEPT ![u].state = "BookingStates:choosing_service"]
    /\ screen' = Show(u, "services_back")
    /\ UNCHANGED update
    /\ UNCHANGED db

\* show_my_bookings: the user's bookings, with get_bookings_keyboard(user_id)
show_my_bookings(u) ==
    /\ screen' = IF \A rows \in GetUserBookings(bookings, u) : rows = <<>>
                      THEN screen ELSE Show(u, "bookings")
    /\ UNCHANGED update
    /\ UNCHANGED <<db, fsm>>

\* back_to_start: await state.clear(); the message is deleted
back_to_start(u) == cmd_start("back_to_start", u)

\* back_to_service: set_state(choosing_service); the services keyboard
back_to_service(u) ==
    /\ fsm' = [fsm EXCEPT ![u].state = "BookingStates:choosing_service"]
    /\ screen' = Show(u, "services_back")
    /\ UNCHANGED update
    /\ UNCHANGED db

\* back_to_date: set_state(choosing_date); the dates keyboard
back_to_date(u) ==
    /\ fsm' = [fsm EXCEPT ![u].state = "BookingStates:choosing_date"]
    /\ screen' = Show(u, "dates_back")
    /\ UNCHANGED update
    /\ UNCHANGED db

\* process_service_selection: selected_service = SERVICES[service_idx];
\* set_state(BookingStates.choosing_date); the dates keyboard
process_service_selection(u, service_idx) ==
    /\ fsm' = [fsm EXCEPT ![u].selected_service = SERVICES[service_idx + 1],
                          ![u].state = "BookingStates:choosing_date"]
    /\ screen' = Show(u, "dates_back")
    /\ UNCHANGED update
    /\ UNCHANGED db

\* process_date_selection: booking_date (and selected_date) of the payload;
\* set_state(choosing_time); the time keyboard of the date
process_date_selection(u, code) ==
    /\ fsm' = [fsm EXCEPT ![u].booking_date = ParseDate(code),
                          ![u].state = "BookingStates:choosing_time"]
    /\ screen' = Show(u, "times_back")
    /\ UNCHANGED update
    /\ UNCHANGED db

\* process_time_selection: selected_time; set_state(entering_phone); the phone keyboard
process_time_selection(u, t) ==
    /\ fsm' = [fsm EXCEPT ![u].selected_time = t,
                          ![u].state = "BookingStates:entering_phone"]
    /\ UNCHANGED update
    /\ UNCHANGED <<db, screen>>

\* back_from_phone: set_state(choosing_time); the time keyboard of booking_date
back_from_phone(u) ==
    /\ fsm' = [fsm EXCEPT ![u].state = "BookingStates:choosing_time"]
    /\ screen' = Show(u, "times_back")
    /\ UNCHANGED update
    /\ UNCHANGED db

\* finalize_booking(message, state, phone): add_booking with the data of the
\* conversation and the sender's id and username; await state.clear().
\* No booking is created past the bound MaxId
finalize_booking(handler, u, data, phone) ==
    LET add == AddCall("finalize_booking", Store, u, Username(u),
                       data.selected_service, data.booking_date,
                       data.selected_time, phone)
    IN  /\ seq < MaxId
        /\ Commit(AddBookingTo(Store, u, Username(u), data.selected_service,
                               data.booking_date, data.selected_time, phone))
        /\ fsm' = Clear(u)
        /\ update' = [Handled(handler, u, {"add_booking"}, add, NoCall, {})
                          EXCEPT !.data = OperatorKeys(data)]
        /\ UNCHANGED screen

\* process_phone_contact: the contact's number, with a plus
process_phone_contact(u, phone_number) ==
    finalize_booking("process_phone_contact", u, fsm[u], Kept(WithPlus(phone_number)))

\* process_phone_text: phone = message.text.strip(); too short: ask again
process_phone_text(u, text) ==
    IF Len(Strip(text)) < MinPhoneLen
        THEN Answered("process_phone_text", u, {})
        ELSE finalize_booking("process_phone_text", u, fsm[u], Kept(WithPlus(Strip(text))))

\* process_cancel_booking: get_booking_by_id; not found: answer and return;
\* deleted = await db.delete_booking(booking_id, user_id)
process_cancel_booking(u, booking_id) ==
    IF GetBookingById(bookings, booking_id) = {}
        THEN Answered("process_cancel_booking", u, {})
        ELSE /\ Commit(DeleteBookingFrom(Store, booking_id, u))
             /\ update' = Handled("process_cancel_booking", u,
                                  {"delete_booking"}, NoCall, DeleteCall(booking_id, u),
                                  bookings \ DeleteBookingFrom(Store, booking_id, u).bookings)
             /\ UNCHANGED <<fsm, screen>>

\* process_reschedule_booking: the booking is not found or not the sender's:
\* answer and return; else its id, its service and the booking itself
\* (old_booking, for its phone) go to the data, and old_date and old_time, which
\* only the reply shows; set_state(RescheduleStates.choosing_date)
process_reschedule_booking(u, booking_id) ==
    LET found == {r \in GetBookingById(bookings, booking_id) : r.user_id = u}
    IN  /\ IF found = {}
               THEN UNCHANGED <<fsm, screen>>
               ELSE /\ \E booking \in found :
                           fsm' = [fsm EXCEPT ![u] =
                               [fsm[u] EXCEPT !.state = "RescheduleStates:choosing_date",
                                              !.bid = booking_id,
                                              !.service = booking.service,
                                              !.old_phone = booking.phone]]
                    /\ screen' = Show(u, "dates")
        /\ UNCHANGED update
        /\ UNCHANGED db

\* process_reschedule_date: new_booking_date (and new_date) of the payload;
\* set_state(choosing_time); the time keyboard of the date
process_reschedule_date(u, code) ==
    /\ fsm' = [fsm EXCEPT ![u].new_booking_date = ParseDate(code),
                          ![u].state = "RescheduleStates:choosing_time"]
    /\ screen' = Show(u, "times")
    /\ UNCHANGED update
    /\ UNCHANGED db

\* phone = old_booking.get('phone', '')
ReschedulePhone_Data(data) == Get(data.phone)

ReschedulePhone(data) == data.old_phone

\* process_reschedule_time: deleted = await db.delete_booking(booking_id, user_id);
\* not deleted: answer, state.clear(), return; else add_booking with the old
\* service and phone at the new date and time; state.clear()
process_reschedule_time(u, new_time) ==
    LET deleted == DeleteBookingFrom(Store, fsm[u].bid, u)
        removed == bookings \ deleted.bookings
        add == AddCall("process_reschedule_time", deleted, u, Username(u),
                       fsm[u].service, fsm[u].new_booking_date, new_time,
                       ReschedulePhone(fsm[u]))
    IN  /\ IF removed = {}
               THEN /\ update' = Handled("process_reschedule_time", u,
                                         {"delete_booking"}, NoCall,
                                         DeleteCall(fsm[u].bid, u), removed)
                    /\ UNCHANGED db
               ELSE /\ seq < MaxId
                    /\ Commit(AddBookingTo(deleted, u, Username(u), fsm[u].service,
                                           fsm[u].new_booking_date, new_time,
                                           ReschedulePhone(fsm[u])))
                    /\ update' = Handled("process_reschedule_time", u,
                                         {"delete_booking", "add_booking"}, add,
                                         DeleteCall(fsm[u].bid, u), removed)
        /\ fsm' = Clear(u)
        /\ UNCHANGED screen

\* admin_add_client_start: if not is_admin(...): return;
\* set_state(AdminAddClientStates.entering_name)
admin_add_client_start(u) ==
    IF is_admin(u)
        THEN /\ fsm' = [fsm EXCEPT ![u].state = "AdminAddClientStates:entering_name"]
             /\ screen' = Show(u, "admin_cancel")
             /\ UNCHANGED update
             /\ UNCHANGED db
        ELSE Answered("admin_add_client_start", u, {})

\* admin_cancel: await state.clear()
admin_cancel(u) == cmd_start("admin_cancel", u)

\* admin_add_client_name: first_name (and last_name) of the text;
\* set_state(entering_phone)
admin_add_client_name(u, text) ==
    /\ fsm' = [fsm EXCEPT ![u].first_name = Kept(FirstName(text)),
                          ![u].state = "AdminAddClientStates:entering_phone"]
    /\ screen' = Show(u, "skip_phone")
    /\ UNCHANGED update
    /\ UNCHANGED db

\* admin_skip_phone: phone=None; set_state(choosing_service)
admin_skip_phone(u) ==
    /\ fsm' = [fsm EXCEPT ![u].phone = Kept(NoText),
                          ![u].state = "AdminAddClientStates:choosing_service"]
    /\ screen' = Show(u, "services")
    /\ UNCHANGED update
    /\ UNCHANGED db

\* admin_add_client_phone: the text, with a plus; set_state(choosing_service)
admin_add_client_phone(u, text) ==
    /\ fsm' = [fsm EXCEPT ![u].phone = Kept(WithPlus(Strip(text))),
                          ![u].state = "AdminAddClientStates:choosing_service"]
    /\ screen' = Show(u, "services")
    /\ UNCHANGED update
    /\ UNCHANGED db

\* admin_add_client_service: selected_service; set_state(choosing_date)
admin_add_client_service(u, service_idx) ==
    /\ fsm' = [fsm EXCEPT ![u].selected_service = SERVICES[service_idx + 1],
                          ![u].state = "AdminAddClientStates:choosing_date"]
    /\ screen' = Show(u, "dates")
    /\ UNCHANGED update
    /\ UNCHANGED db

\* admin_add_client_date: booking_date; set_state(choosing_time)
admin_add_client_date(u, code) ==
    /\ fsm' = [fsm EXCEPT ![u].booking_date = ParseDate(code),
                          ![u].state = "AdminAddClientStates:choosing_time"]
    /\ screen' = Show(u, "times")
    /\ UNCHANGED update
    /\ UNCHANGED db

\* admin_add_client_time: add_booking with a generated user_id, username
\* "admin_added" and the phone of the data; state.clear()
admin_add_client_time(u, selected_time) ==
    \E generated_user_id \in GeneratedIds :
        /\ seq < MaxId
        /\ Commit(AddBookingTo(Store, generated_user_id, "admin_added",
                               fsm[u].selected_service, fsm[u].booking_date,
                               selected_time, Get(fsm[u].phone)))
        /\ fsm' = Clear(u)
        /\ update' = Handled("admin_add_client_time", u, {"add_booking"},
                             AddCall("admin_add_client_time", Store, generated_user_id,
                                     "admin_added", fsm[u].selected_service,
                                     fsm[u].booking_date, selected_time,
                                     Get(fsm[u].phone)),
                             NoCall, {})
        /\ UNCHANGED screen

\* admin_delete_client_start: if not is_admin(...): return;
\* set_state(AdminDeleteClientStates.entering_booking_id)
admin_delete_client_start(u) ==
    IF is_admin(u)
        THEN /\ fsm' = [fsm EXCEPT ![u].state =
                            "AdminDeleteClientStates:entering_booking_id"]
             /\ screen' = Show(u, "admin_cancel")
             /\ UNCHANGED update
             /\ UNCHANGED db
        ELSE Answered("admin_delete_client_start", u, {})

\* admin_delete_client_execute: int(message.text), ValueError: answer "Неверный ID";
\* not found: answer, state.clear(); else delete_booking(booking_id, user_id=None),
\* state.clear()
admin_delete_client_execute(u, text) ==
    LET booking_id == ParseInt(text)
    IN  IF ~booking_id.ok
            THEN Answered("admin_delete_client_execute", u, {})
            ELSE IF GetBookingById(bookings, booking_id.value) = {}
                THEN /\ fsm' = Clear(u)
                     /\ UNCHANGED update
                     /\ UNCHANGED <<db, screen>>
                ELSE /\ Commit(DeleteBookingFrom(Store, booking_id.value, None))
                     /\ fsm' = Clear(u)
                     /\ update' = Handled("admin_delete_client_execute", u,
                             {"delete_booking:None"}, NoCall,
                             DeleteCall(booking_id.value, None),
                             bookings \ DeleteBookingFrom(Store, booking_id.value, None).bookings)
                     /\ UNCHANGED screen

\* admin_view_clients: if not is_admin(...): return; get_all_bookings
admin_view_clients(u) ==
    IF is_admin(u) THEN Answered("admin_view_clients", u, {"get_all_bookings"})
    ELSE Answered("admin_view_clients", u, {})

\* admin_analytics: if not is_admin(...): return; get_statistics_summary
admin_analytics(u) ==
    IF is_admin(u) THEN Answered("admin_analytics", u, {"get_statistics_summary"})
    ELSE Answered("admin_analytics", u, {})

\* the dispatcher handles a text message of user u
Message(u, text) ==
    LET handler == MessageRoute(fsm[u].state, text, FALSE)
    IN  CASE handler = "cmd_start" -> cmd_start("cmd_start", u)
          [] handler = "switch_to_client_mode" -> switch_to_client_mode(u)
          [] handler = "cmd_admin" -> cmd_admin(u)
          [] handler = "start_booking" -> start_booking(u)
          [] handler = "show_my_bookings" -> show_my_bookings(u)
          [] handler = "back_from_phone" -> back_from_phone(u)
          [] handler = "process_phone_text" -> process_phone_text(u, text)
          [] handler = "admin_add_client_start" -> admin_add_client_start(u)
          [] handler = "admin_add_client_name" -> admin_add_client_name(u, text)
          [] handler = "admin_add_client_phone" -> admin_add_client_phone(u, text)
          [] handler = "admin_delete_client_start" -> admin_delete_client_start(u)
          [] handler = "admin_delete_client_execute" -> admin_delete_client_execute(u, text)
          [] handler = "admin_view_clients" -> admin_view_clients(u)
          [] handler = "admin_analytics" -> admin_analytics(u)
          [] OTHER -> FALSE

\* the dispatcher handles a contact user u shares: message.text is None, and a
\* handler that reads the text raises before it changes anything
ContactMessage(u, phone_number) ==
    LET handler == MessageRoute(fsm[u].state, NoText, TRUE)
    IN  CASE handler = "process_phone_contact" -> process_phone_contact(u, phone_number)
          [] handler = "unhandled" -> FALSE
          [] OTHER -> Answered(handler, u, {})

\* the dispatcher handles the callback query of a button user u presses
CallbackQuery(u, name, arg) ==
    /\ OnScreen(u, name)
    /\ LET handler == CallbackRoute(fsm[u].state, name)
       IN  CASE handler = "back_to_start" -> back_to_start(u)
             [] handler = "back_to_service" -> back_to_service(u)
             [] handler = "back_to_date" -> back_to_date(u)
             [] handler = "process_service_selection" -> process_service_selection(u, arg)
             [] handler = "process_date_selection" -> process_date_selection(u, arg)
             [] handler = "process_time_selection" -> process_time_selection(u, arg)
             [] handler = "process_cancel_booking" -> process_cancel_booking(u, arg)
             [] handler = "process_reschedule_booking" -> process_reschedule_booking(u, arg)
             [] handler = "process_reschedule_date" -> process_reschedule_date(u, arg)
             [] handler = "process_reschedule_time" -> process_reschedule_time(u, arg)
             [] handler = "admin_cancel" -> admin_cancel(u)
             [] handler = "admin_skip_phone" -> admin_skip_phone(u)
             [] handler = "admin_add_client_service" -> admin_add_client_service(u, arg)
             [] handler = "admin_add_client_date" -> admin_add_client_date(u, arg)
             [] handler = "admin_add_client_time" -> admin_add_client_time(u, arg)
             [] OTHER -> FALSE

\* the indexes of the service buttons, the dates of the date buttons
ServiceIdx == {0}
BotDateCodes == {20250310}

\* the followed user writes to the bot and presses its buttons, in any order
Followed(u) ==
    \/ \E text \in Texts : Message(u, text)
    \/ \E phone_number \in Contacts : ContactMessage(u, phone_number)
    \/ \E name \in {"back_to_start", "back_to_service", "back_to_date",
                    "admin_cancel", "skip_phone"} : CallbackQuery(u, name, 0)
    \/ \E service_idx \in ServiceIdx : CallbackQuery(u, "service", service_idx)
    \/ \E code \in BotDateCodes : CallbackQuery(u, "date", code)
    \/ \E t \in Times : CallbackQuery(u, "time", t)
    \/ \E b \in BookingIds, name \in {"cancel", "reschedule"} :
           CallbackQuery(u, name, b)

\* another user v goes from "Записаться" to the phone number, with nothing
\* else of v in between: the steps before finalize_booking change v's
\* conversation only
BookingConversation(v, service_idx, code, t, text) ==
    /\ Len(Strip(text)) >= MinPhoneLen
    /\ finalize_booking("process_phone_text", v,
                        [NoState EXCEPT !.selected_service = SERVICES[service_idx + 1],
                                        !.booking_date = ParseDate(code),
                                        !.selected_time = t],
                        Kept(WithPlus(Strip(text))))

\* another user: a whole booking conversation, a cancel button, the views, and
\* for the operator the conversation "Удалить клиента" with a booking id
Other(v) ==
    \/ \E service_idx \in ServiceIdx, code \in BotDateCodes, t \in Times :
           BookingConversation(v, service_idx, code, t, TextPhone)
    \/ \E b \in BookingIds : process_cancel_booking(v, b)
    \/ admin_view_clients(v)
    \/ admin_analytics(v)
    \/ /\ is_admin(v)
       /\ \E b \in BookingIds : admin_delete_client_execute(v, TextOf(b))

\* one user's conversation update by update, against the other users
NextBot ==
    /\ \E u \in TgUsers : IF u = followed THEN Followed(u) ELSE Other(u)
    /\ UNCHANGED <<task, script, settings, reads, notify, schema, followed>>

\* no booking stored, no conversation open
InitConversations ==
    /\ bookings = {}
    /\ seq = 0
    /\ statistics = <<>>
    /\ task = [p \in Procs |-> IdleTask]
    /\ fsm = [u \in TgUsers |-> NoState]
    /\ script = [p \in Procs |-> NoScript]
    /\ settings = {}
    /\ reads = [p \in Procs |-> NoRead]
    /\ update = NoUpdate
    /\ screen = [u \in TgUsers |-> {}]
    /\ notify = [p \in Procs |-> NoNotify]
    /\ schema = NewSchema

\* a client is followed
InitBot == InitConversations /\ followed \in TgUsers \ {ADMIN_ID}

\* the operator is followed
InitOperator == InitConversations /\ followed = ADMIN_ID

SpecBot == InitBot /\ [][NextBot]_vars

\* the operator goes through "Добавить клиента": the texts and the buttons
\* that this conversation asks for, in any order, while no client writes
AddClientConversation(u) ==
    \/ \E text \in {TextAddClient, TextPhone} : Message(u, text)
    \/ \E name \in {"admin_cancel", "skip_phone"} : CallbackQuery(u, name, 0)
    \/ \E service_idx \in ServiceIdx : CallbackQuery(u, "service", service_idx)
    \/ \E code \in BotDateCodes : CallbackQuery(u, "date", code)
    \/ \E t \in Times : CallbackQuery(u, "time", t)

NextOperator ==
    /\ AddClientConversation(ADMIN_ID)
    /\ UNCHANGED <<task, script, settings, reads, notify, schema, followed>>

SpecOperator == InitOperator /\ [][NextOperator]_vars

----------------------------------------------------------------------------
(* Notifications: finalize_booking, process_cancel_booking and             *)
(* process_reschedule_time from their store call on, with                  *)
(* send_admin_notification step by step.  Each await of the notification   *)
(* is a step, so that the other task's store calls come in between; a      *)
(* store call is one step here.  A task handles one update.                *)

\* max_attempts = 3
max_attempts == 3

\* the globals send_admin_notification tests: bot_instance is None until main
\* has made the Bot; ADMIN_ID is what confi23g holds, None or 0 when not set
BotInstances == {Missing, "Bot"}
ConfiguredIds == {None, 0, ADMIN_ID}

\* if attempt < max_attempts - 1: await asyncio.sleep(1)
SleepsAfter_Always(attempt) == TRUE

SleepsAfter(attempt) == attempt < max_attempts - 1

\* the text a handler answers with, from the result of its store call
ReplyText_Delivered(handler, result, delivered) ==
    IF handler = "finalize_booking"
        THEN IF result /\ delivered THEN "created" ELSE "taken"
    ELSE IF handler = "process_cancel_booking"
        THEN IF result /\ delivered THEN "cancelled" ELSE "error"
    ELSE IF result /\ delivered THEN "moved" ELSE "new time taken"

ReplyText(handler, result, delivered) ==
    IF handler = "finalize_booking"
        THEN IF result THEN "created" ELSE "taken"
    ELSE IF handler = "process_cancel_booking"
        THEN IF result THEN "cancelled" ELSE "error"
    ELSE IF result THEN "moved" ELSE "new time taken"

\* the handler of task p goes on after its store call returned `result`:
\* if success: ... await send_admin_notification(...); then the answer
AfterStoreCall(p, handler, u, result) ==
    notify' = [notify EXCEPT ![p].handler = handler, ![p].uid = u,
                             ![p].result = result,
                             ![p].pc = IF result THEN "notify" ELSE "reply"]

\* finalize_booking: success = await db.add_booking(...)
FinalizeBooking(p, u, s, d, t) ==
    /\ notify[p].pc = "idle"
    /\ seq < MaxId
    /\ Commit(AddBookingTo(Store, u, Username(u), s, d, t, "text"))
    /\ AfterStoreCall(p, "finalize_booking", u, AddBookingResult(Store, u, s, d, t))

\* process_cancel_booking: the booking is not found: answer and return;
\* deleted = await db.delete_booking(booking_id, user_id)
CancelBooking(p, u, booking_id) ==
    /\ notify[p].pc = "idle"
    /\ IF GetBookingById(bookings, booking_id) = {}
           THEN /\ notify' = [notify EXCEPT ![p].handler = "process_cancel_booking",
                                            ![p].uid = u, ![p].pc = "done",
                                            ![p].answer = "not found"]
                /\ UNCHANGED db
           ELSE /\ Commit(DeleteBookingFrom(Store, booking_id, u))
                /\ AfterStoreCall(p, "process_cancel_booking", u,
                                  DeleteMatch(bookings, booking_id, u) # {})

\* process_reschedule_time: deleted = await db.delete_booking(booking_id, user_id);
\* if not deleted: await callback.answer("Ошибка"); await state.clear(); return
RescheduleDelete(p, u, booking_id, d, t) ==
    /\ notify[p].pc = "idle"
    /\ Commit(DeleteBookingFrom(Store, booking_id, u))
    /\ notify' = [notify EXCEPT
           ![p] = IF DeleteMatch(bookings, booking_id, u) = {}
                      THEN [@ EXCEPT !.handler = "process_reschedule_time", !.uid = u,
                                     !.pc = "done", !.answer = "error"]
                      ELSE [@ EXCEPT !.handler = "process_reschedule_time", !.uid = u,
                                     !.pc = "deleted", !.date = d, !.time = t]]

\* process_reschedule_time: success = await db.add_booking(...)
RescheduleInsert(p) ==
    /\ notify[p].pc = "deleted"
    /\ seq < MaxId
    /\ LET f == notify[p]
       IN  /\ Commit(AddBookingTo(Store, f.uid, Username(f.uid), SERVICES[1],
                                  f.date, f.time, "text"))
           /\ AfterStoreCall(p, f.handler, f.uid,
                             AddBookingResult(Store, f.uid, SERVICES[1], f.date, f.time))

\* send_admin_notification: if not bot_instance: return; if not ADMIN_ID: return;
\* for attempt in range(max_attempts)
send_admin_notification(p) ==
    /\ notify[p].pc = "notify"
    /\ notify' = [notify EXCEPT
           ![p].pc = IF notify[p].bot_instance = Missing \/ ~Truthy(notify[p].admin_id)
                         THEN "reply"
                         ELSE "send",
           ![p].attempt = 0]
    /\ UNCHANGED db

\* await bot_instance.send_message(...) returns: return
send_message(p) ==
    /\ notify[p].pc = "send"
    /\ notify' = [notify EXCEPT ![p].sends = @ + 1, ![p].delivered = TRUE,
                                ![p].pc = "reply"]
    /\ UNCHANGED db

\* await bot_instance.send_message(...) raises: except Exception; sleep if this
\* was not the last attempt; the loop goes on, or ends after the last attempt
send_message_raises(p) ==
    /\ notify[p].pc = "send"
    /\ notify' = [notify EXCEPT
           ![p].sends = @ + 1,
           ![p].pc = IF SleepsAfter(notify[p].attempt) THEN "sleep"
                     ELSE IF notify[p].attempt + 1 < max_attempts THEN "send"
                     ELSE "reply",
           ![p].attempt = IF SleepsAfter(notify[p].attempt) THEN @ ELSE @ + 1]
    /\ UNCHANGED db

\* await asyncio.sleep(1) returns; the next attempt, if one is left
sleep(p) ==
    /\ notify[p].pc = "sleep"
    /\ notify' = [notify EXCEPT
           ![p].sleeps = @ + 1,
           ![p].attempt = @ + 1,
           ![p].pc = IF notify[p].attempt + 1 < max_attempts THEN "send" ELSE "reply"]
    /\ UNCHANGED db

\* await message.answer(text=confirmation_text, ...), callback.message.edit_text(...)
Reply(p) ==
    /\ notify[p].pc = "reply"
    /\ notify' = [notify EXCEPT
           ![p].answer = ReplyText(notify[p].handler, notify[p].result,
                                   notify[p].delivered),
           ![p].pc = "done"]
    /\ UNCHANGED db

\* the steps of task p that the event loop takes when the awaited call is over
Resume(p) ==
    /\ \/ RescheduleInsert(p)
       \/ send_admin_notification(p)
       \/ send_message(p)
       \/ send_message_raises(p)
       \/ sleep(p)
       \/ Reply(p)
    /\ UNCHANGED <<task, fsm, script, settings, reads, update, screen, schema, followed>>

NextNotify ==
    /\ \E p \in Procs :
           \/ \E u \in TgUsers, d \in Dates, t \in Times :
                  FinalizeBooking(p, u, SERVICES[1], d, t)
           \/ \E u \in TgUsers, b \in BookingIds : CancelBooking(p, u, b)
           \/ \E u \in TgUsers, b \in BookingIds, d \in Dates, t \in Times :
                  RescheduleDelete(p, u, b, d, t)
           \/ RescheduleInsert(p)
           \/ send_admin_notification(p)
           \/ send_message(p)
           \/ send_message_raises(p)
           \/ sleep(p)
           \/ Reply(p)
    /\ UNCHANGED <<task, fsm, script, settings, reads, update, screen, schema, followed>>

\* a store with one booking of a client; the globals as main left them, or as
\* a call before main, or with no ADMIN_ID in confi23g, finds them
InitNotify ==
    \E u \in TgUsers, b \in BotInstances, a \in ConfiguredIds :
        /\ bookings = {BookingRow(0, u, Username(u), SERVICES[1], FirstDate, FirstTime, "text")}
        /\ seq = 1
        /\ statistics = <<Event("booking_created", u)>>
        /\ task = [p \in Procs |-> IdleTask]
        /\ fsm = [v \in TgUsers |-> NoState]
        /\ script = [p \in Procs |-> NoScript]
        /\ settings = {}
        /\ reads = [p \in Procs |-> NoRead]
        /\ update = NoUpdate
        /\ screen = [v \in TgUsers |-> {}]
        /\ notify = [p \in Procs |-> [NoNotify EXCEPT !.bot_instance = b, !.admin_id = a]]
        /\ schema = NewSchema
        /\ followed = None

SpecNotify == InitNotify /\ [][NextNotify]_vars

\* the event loop resumes a task whose awaited call is over: send_message
\* returns or raises (the request has a timeout), asyncio.sleep(1) returns
SpecNotifyLive == SpecNotify /\ \A p \in Procs : WF_vars(Resume(p))

----------------------------------------------------------------------------
(* Database.init_db on a file that may hold data: the bot is started,      *)
(* calls the store, is stopped and started again.  A store call is one     *)
(* step here; a start is init_db, which main awaits before anything else.  *)

\* Bound: the starts of the bot on one file
MaxStarts == 3

\* CREATE TABLE IF NOT EXISTS name (...): an existing table is left as it is
CreateTableIfNotExists_Replace(tables, name, rows, empty) == empty

CreateTableIfNotExists(tables, name, rows, empty) ==
    IF name \in tables THEN rows ELSE empty

\* ALTER TABLE bookings ADD COLUMN phone TEXT, in try/except: the column is
\* there afterwards; the rows stored before have NULL in it
AddColumnPhone(has_phone) == TRUE

\* init_db: the three CREATE TABLE IF NOT EXISTS, the ALTER TABLE, commit.
\* `found` counts the rows the file held; the new process has handled no update
init_db ==
    /\ schema.starts < MaxStarts
    /\ bookings' = CreateTableIfNotExists(schema.tables, "bookings", bookings, {})
    /\ seq' = CreateTableIfNotExists(schema.tables, "bookings", seq, 0)
    /\ settings' = CreateTableIfNotExists(schema.tables, "settings", settings, {})
    /\ statistics' = CreateTableIfNotExists(schema.tables, "statistics", statistics, <<>>)
    /\ schema' = [tables |-> schema.tables \cup Tables,
                  phone |-> AddColumnPhone(schema.phone),
                  starts |-> schema.starts + 1,
                  found |-> Cardinality(bookings) + Len(statistics) + Cardinality(settings)]
    /\ update' = NoUpdate
    /\ UNCHANGED <<task, fsm, script, reads, screen, notify, followed>>

\* the bot runs: init_db has made the tables
Started == schema.starts > 0 /\ Tables \subseteq schema.tables

\* db.set_admin_id(ADMIN_ID), which main awaits after init_db
StoreSetAdminId(admin_id) ==
    /\ Started
    /\ settings' = UpsertSetting(settings, "admin_id", StrOf(admin_id))
    /\ UNCHANGED <<db, task, fsm, script, reads, bot>>

\* db.add_booking(...) run to its return. No booking is created past MaxId
StoreAddBooking(u, s, d, t) ==
    /\ Started
    /\ seq < MaxId
    /\ Commit(AddBookingTo(Store, u, Username(u), s, d, t, "text"))
    /\ update' = [NoUpdate EXCEPT !.handler = "add_booking", !.uid = u,
                                  !.add = AddCall("add_booking", Store, u, Username(u),
                                                  s, d, t, "text")]
    /\ UNCHANGED <<task, fsm, script, settings, reads, screen, notify, schema, followed>>

\* db.delete_booking(booking_id, user_id) run to its return
StoreDeleteBooking(b, u) ==
    /\ Started
    /\ Commit(DeleteBookingFrom(Store, b, u))
    /\ update' = [NoUpdate EXCEPT !.handler = "delete_booking", !.uid = u,
                                  !.del = DeleteCall(b, u),
                                  !.removed = DeleteMatch(bookings, b, u)]
    /\ UNCHANGED <<task, fsm, script, settings, reads, screen, notify, schema, followed>>

NextInitDb ==
    \/ init_db
    \/ StoreSetAdminId(ADMIN_ID)
    \/ \E u \in TgUsers, d \in Dates, t \in Times : StoreAddBooking(u, SERVICES[1], d, t)
    \/ \E u \in TgUsers, b \in BookingIds : StoreDeleteBooking(b, u)

\* no file yet; or the file of an earlier version of the bot, its bookings
\* table without the column phone, holding a booking, its event and the
\* operator's id
InitInitDb ==
    /\ \/ /\ schema = [tables |-> {}, phone |-> FALSE, starts |-> 0, found |-> 0]
          /\ bookings = {}
          /\ seq = 0
          /\ statistics = <<>>
          /\ settings = {}
       \/ \E u \in TgUsers :
              /\ schema = [tables |-> Tables, phone |-> FALSE, starts |-> 0, found |-> 0]
              /\ bookings = {BookingRow(0, u, Username(u), SERVICES[1],
                                        FirstDate, FirstTime, Missing)}
              /\ seq = 1
              /\ statistics = <<Event("booking_created", u)>>
              /\ settings = UpsertSetting({}, "admin_id", StrOf(ADMIN_ID))
    /\ task = [p \in Procs |-> IdleTask]
    /\ fsm = [v \in TgUsers |-> NoState]
    /\ script = [p \in Procs |-> NoScript]
    /\ reads = [p \in Procs |-> NoRead]
    /\ update = NoUpdate
    /\ screen = [v \in TgUsers |-> {}]
    /\ notify = [p \in Procs |-> NoNotify]
    /\ followed = None

SpecInitDb == InitInitDb /\ [][NextInitDb]_vars

----------------------------------------------------------------------------
(* Properties *)

\* a stored booking occupies slot (d, t)
Occupied(rows, d, t) == \E r \in rows : r.booking_date = d /\ r.booking_time = t

AtSlot(rows, d, t) == {r \in rows : r.booking_date = d /\ r.booking_time = t}

\* C1: in every reachable state no two stored bookings have the same
\* (booking_date, booking_time), whoever the clients and whatever the services
SlotUniqueness ==
    \A b1, b2 \in bookings :
        b1 # b2 => <<b1.booking_date, b1.booking_time>> # <<b2.booking_date, b2.booking_time>>

\* two bookings are stored and a task's add_booking has been refused
SlotUniquenessWitness ==
    /\ Cardinality(bookings) = 2
    /\ \E p \in Procs : task[p].pc = "add_ret" /\ ~task[p].res

\* C2: two add_booking calls for the same free slot, run concurrently: once both
\* have returned, exactly one returned True, the other False, and exactly one
\* booking is stored for the slot
CreateRace(p, q) ==
    /\ p # q
    /\ script[p].op = "add"
    /\ script[q].op = "add"
    /\ script[p].f.date = script[q].f.date
    /\ script[p].f.time = script[q].f.time
    /\ <<script[p].f.date, script[p].f.time>> # <<FirstDate, FirstTime>>
    /\ task[p].pc = "add_ret"
    /\ task[q].pc = "add_ret"

ConcurrentCreateOneWinner ==
    \A p, q \in Procs :
        CreateRace(p, q) =>
            /\ task[p].res # task[q].res
            /\ Cardinality(AtSlot(bookings, script[p].f.date, script[p].f.time)) = 1

ConcurrentCreateWitness ==
    \E p, q \in Procs :
        /\ CreateRace(p, q)
        /\ script[p].f.uid # script[q].f.uid
        /\ task[p].res

\* C3: add_booking on a slot that a stored booking occupies returns False at once,
\* leaves the bookings as they are and appends no usage event
RejectedCreateHasNoEffect ==
    [][\A p \in Procs, u \in Users, s \in Services, d \in Dates, t \in Times :
           (ApiAddBooking(p, u, s, d, t) /\ Occupied(bookings, d, t)) =>
               /\ task'[p].pc = "add_ret"
               /\ task'[p].res = FALSE
               /\ bookings' = bookings
               /\ seq' = seq
               /\ statistics' = statistics]_vars

\* an add_booking has been refused while a booking is stored
RejectedCreateWitness ==
    \E p \in Procs :
        /\ task[p].h = "api"
        /\ task[p].pc = "add_ret"
        /\ ~task[p].res
        /\ bookings # {}
        /\ Len(statistics) = Cardinality(bookings)

\* C4: delete_booking called with a user id (any id, 0 included) removes the
\* booking only if that user owns it; for another user's booking it returns
\* False and the booking stays
DeleteChecksOwnerOfEveryId ==
    [][\A p \in Procs, b \in BookingIds, u \in Users :
           ApiDeleteBooking(p, b, u) =>
               \A r \in bookings :
                   (r.id = b /\ r.user_id # u) =>
                       /\ r \in bookings'
                       /\ task'[p].pc = "del_ret"
                       /\ task'[p].res = FALSE]_vars

\* (C4) the same for every user id that is not 0
DeleteChecksOwnerOfNonZeroId ==
    [][\A p \in Procs, b \in BookingIds, u \in Users \ {0} :
           ApiDeleteBooking(p, b, u) =>
               \A r \in bookings :
                   (r.id = b /\ r.user_id # u) =>
                       /\ r \in bookings'
                       /\ task'[p].pc = "del_ret"
                       /\ task'[p].res = FALSE]_vars

\* C5: delete_booking called with no user id (None) removes the stored booking
\* whoever owns it, and returns True
OperatorDeleteUnconditional ==
    [][\A p \in Procs :
           /\ \A b \in Ids(bookings) :
                  ApiDeleteBooking(p, b, None) =>
                      /\ bookings' = {r \in bookings : r.id # b}
                      /\ task'[p].pc = "del_stat"
           /\ (task[p].pc = "del_stat" /\ task'[p] # task[p]) =>
                  (task'[p].pc = "del_ret" /\ task'[p].res = TRUE)]_vars

\* a delete_booking without user id has returned True for a client's booking
OperatorDeleteWitness ==
    \E p \in Procs :
        /\ task[p].pc = "del_ret"
        /\ task[p].res
        /\ statistics # <<>>
        /\ statistics[Len(statistics)] = Event("booking_deleted", None)
        /\ statistics[1].user_id # None

\* C6: delete_booking returns True exactly when it removed a booking; it returns
\* False for an id that is not stored (never created, or already deleted) and
\* for a booking of another user than the one given
DeleteReturnsTrueIffRemoved ==
    [][\A p \in Procs, b \in BookingIds, u \in Users \cup {None} :
           ApiDeleteBooking(p, b, u) =>
               /\ (task'[p].pc = "del_stat") <=> (bookings' # bookings)
               /\ (task'[p].pc = "del_ret" /\ ~task'[p].res) <=> (bookings' = bookings)
               /\ (\/ b \notin Ids(bookings)
                   \/ u # None /\ \E r \in bookings : r.id = b /\ r.user_id # u)
                      => (bookings' = bookings /\ task'[p].pc = "del_ret" /\ ~task'[p].res)]_vars

\* (C6) the same, the ownership check taken as the code makes it (not for id 0)
DeleteReturnsTrueIffRemovedNonZero ==
    [][\A p \in Procs, b \in BookingIds, u \in Users \cup {None} :
           ApiDeleteBooking(p, b, u) =>
               /\ (task'[p].pc = "del_stat") <=> (bookings' # bookings)
               /\ (task'[p].pc = "del_ret" /\ ~task'[p].res) <=> (bookings' = bookings)
               /\ (\/ b \notin Ids(bookings)
                   \/ Truthy(u) /\ \E r \in bookings : r.id = b /\ r.user_id # u)
                      => (bookings' = bookings /\ task'[p].pc = "del_ret" /\ ~task'[p].res)]_vars

\* C7: two delete_booking calls for the same stored booking, each by its owner or
\* without user id, run concurrently: once both have returned, exactly one
\* returned True and exactly one booking_deleted event has been appended
DeleteRace(p, q) ==
    /\ p # q
    /\ script[p].op = "delete"
    /\ script[q].op = "delete"
    /\ script[p].f.bid = script[q].f.bid
    /\ script[p].f.uid \in {None, statistics[1].user_id}
    /\ script[q].f.uid \in {None, statistics[1].user_id}
    /\ task[p].pc = "del_ret"
    /\ task[q].pc = "del_ret"

ConcurrentDeleteOneWinner ==
    \A p, q \in Procs :
        DeleteRace(p, q) =>
            /\ task[p].res # task[q].res
            /\ Cardinality({i \in DOMAIN statistics :
                               statistics[i].action_type = "booking_deleted"}) = 1
            /\ bookings = {}

ConcurrentDeleteWitness ==
    \E p, q \in Procs :
        /\ DeleteRace(p, q)
        /\ script[p].f.uid = None
        /\ script[q].f.uid # None
        /\ task[q].res

\* C8: the occupied slots read for a date are exactly the times of the bookings
\* stored for that date at the read, each once; the slots offered are the slot
\* catalog without them
KeyboardMatchesStore ==
    [][\A p \in Procs :
           (task'[p] # task[p] /\ task'[p].pc = "kbd_ret") =>
               LET stored == {r.booking_time : r \in {x \in bookings : x.booking_date = task'[p].date}}
                   occupied == task'[p].occupied
                   available == task'[p].available
               IN  /\ Range(occupied) = stored
                   /\ Len(occupied) = Cardinality(stored)
                   /\ Range(available) = Range(ALL_TIME_SLOTS) \ stored
                   /\ Len(available) = Cardinality(Range(ALL_TIME_SLOTS) \ stored)]_vars

\* a keyboard read a date with a booking while another date held a booking too
KeyboardWitness ==
    \E p \in Procs :
        /\ task[p].pc = "kbd_ret"
        /\ Len(task[p].occupied) = 1
        /\ Len(task[p].available) = 1
        /\ Cardinality(bookings) = 2
        /\ \E r \in bookings : r.booking_date # task[p].date

\* C9: a client's booking at (D1,T1) is rescheduled, nobody else acting, by
\* delete_booking and a successful add_booking at a free slot (D2,T2), another
\* slot than (D1,T1): the client's bookings then hold (D2,T2) and not (D1,T1),
\* and T1 is not occupied on D1
RescheduleDone(p) ==
    /\ script[p].op = "reschedule"
    /\ \A q \in Procs \ {p} : script[q].op = "none"
    /\ <<script[p].f.date, script[p].f.time>> # <<script[p].f.odate, script[p].f.otime>>
    /\ task[p].h = "reschedule_time"
    /\ task[p].pc = "add_ret"
    /\ task[p].res

RescheduleComposition ==
    \A p \in Procs :
        RescheduleDone(p) =>
            LET f == script[p].f
            IN  /\ GetUserBookings(bookings, f.uid) # {}
                /\ \A list \in GetUserBookings(bookings, f.uid) :
                       /\ \E i \in DOMAIN list :
                              list[i].booking_date = f.date /\ list[i].booking_time = f.time
                       /\ \A i \in DOMAIN list :
                              ~(list[i].booking_date = f.odate /\ list[i].booking_time = f.otime)
                /\ \A rows \in RowOrders(OccupiedRows(bookings, f.odate)) :
                       f.otime \notin Range(TimesOf(rows))

\* a reschedule to another slot is done and the client's one booking has a new id
RescheduleCompositionWitness ==
    \E p \in Procs :
        /\ RescheduleDone(p)
        /\ Cardinality(bookings) = 1
        /\ 1 \notin Ids(bookings)

\* C10: in a reschedule to another slot whose delete_booking succeeded, if a
\* booking of another caller holds the target slot when add_booking runs, then
\* add_booking fails, the original booking is not restored, the client holds
\* neither the old nor the new slot, and the old slot is free
RescheduleNotAtomic ==
    [][\A p \in Procs :
           LET f == task[p]
           IN  (/\ f.h = "reschedule_time"
                /\ f.pc = "del_ret"
                /\ f.res
                /\ <<f.date, f.time>> # <<f.odate, f.otime>>
                /\ \E r \in bookings : /\ r.booking_date = f.date
                                       /\ r.booking_time = f.time
                                       /\ r.user_id # f.uid
                /\ task'[p] # f)
               => /\ task'[p].pc = "add_ret"
                  /\ task'[p].res = FALSE
                  /\ f.bid \notin Ids(bookings')
                  /\ \A r \in bookings' :
                         r.user_id = f.uid =>
                             /\ <<r.booking_date, r.booking_time>> # <<f.odate, f.otime>>
                             /\ <<r.booking_date, r.booking_time>> # <<f.date, f.time>>
                  /\ ~Occupied(bookings', f.odate, f.otime)]_vars

\* a reschedule has lost its target slot to another caller's add_booking
RescheduleNotAtomicWitness ==
    \E p, q \in Procs :
        /\ task[p].h = "reschedule_time"
        /\ task[p].pc = "add_ret"
        /\ ~task[p].res
        /\ script[q].op = "add"
        /\ script[q].f.uid # script[p].f.uid
        /\ Occupied(bookings, script[p].f.date, script[p].f.time)
        /\ ~Occupied(bookings, script[p].f.odate, script[p].f.otime)
        /\ GetUserBookings(bookings, script[p].f.uid) = {<<>>}

\* no add_booking or delete_booking has committed its row change without
\* having logged it yet
Quiescent == \A p \in Procs : task[p].pc \notin {"add_stat", "del_stat"}

CountEvents(action_type) ==
    Cardinality({i \in DOMAIN statistics : statistics[i].action_type = action_type})

Pending(pc) == Cardinality({p \in Procs : task[p].pc = pc})

\* C13: every successful add_booking appends exactly one booking_created event,
\* whose actor is the client of the booking it stored; a failing add_booking
\* appends none
CreateLogsOneEvent ==
    [][/\ \A p \in Procs :
              (task'[p] # task[p] /\ task[p].pc # "add_stat"
                   /\ task'[p].pc \in {"add_stat", "add_ret"}) =>
                  /\ statistics' = statistics
                  /\ IF bookings' = bookings
                         THEN task'[p].pc = "add_ret" /\ ~task'[p].res
                         ELSE /\ task'[p].pc = "add_stat"
                              /\ \E r \in bookings' \ bookings :
                                     /\ bookings' = bookings \cup {r}
                                     /\ r.user_id = task'[p].uid
       /\ \A p \in Procs :
              (task[p].pc = "add_stat" /\ task'[p] # task[p]) =>
                  /\ statistics' = Append(statistics, Event("booking_created", task[p].uid))
                  /\ task'[p].pc = "add_ret"
                  /\ task'[p].res
       /\ (CountEvents("booking_created") + Pending("add_stat"))' = seq'
       /\ (CountEvents("booking_created"))' # CountEvents("booking_created")
              => \E p \in Procs : task[p].pc = "add_stat" /\ task'[p].pc = "add_ret"]_vars

\* one add_booking has returned True and is logged under its client, another
\* has returned False
CreateLogsOneEventWitness ==
    \E p, q \in Procs :
        /\ task[p].pc = "add_ret" /\ task[p].res
        /\ task[q].pc = "add_ret" /\ ~task[q].res
        /\ Len(statistics) = 1
        /\ \E r \in bookings : statistics[1] = Event("booking_created", r.user_id)

\* C14: every delete_booking that returns True appends exactly one
\* booking_deleted event; a delete_booking that returns False appends none
DeleteLogsOneEvent ==
    [][/\ \A p \in Procs :
              (task'[p] # task[p] /\ task[p].pc # "del_stat"
                   /\ task'[p].pc \in {"del_stat", "del_ret"}) =>
                  /\ statistics' = statistics
                  /\ IF bookings' = bookings
                         THEN task'[p].pc = "del_ret" /\ ~task'[p].res
                         ELSE task'[p].pc = "del_stat"
       /\ \A p \in Procs :
              (task[p].pc = "del_stat" /\ task'[p] # task[p]) =>
                  /\ statistics' = Append(statistics, Event("booking_deleted", task[p].uid))
                  /\ task'[p].pc = "del_ret"
                  /\ task'[p].res
       /\ (CountEvents("booking_deleted") + Pending("del_stat"))' = seq' - Cardinality(bookings')
       /\ (CountEvents("booking_deleted"))' # CountEvents("booking_deleted")
              => \E p \in Procs : task[p].pc = "del_stat" /\ task'[p].pc = "del_ret"]_vars

\* one delete_booking has returned True and is logged, another has returned False
DeleteLogsOneEventWitness ==
    \E p, q \in Procs :
        /\ task[p].pc = "del_ret" /\ task[p].res
        /\ task[q].pc = "del_ret" /\ ~task[q].res
        /\ CountEvents("booking_deleted") = 1
        /\ statistics[Len(statistics)].action_type = "booking_deleted"

\* C15: if add_booking or delete_booking ends with a persistence fault at any
\* of its steps, the append of the usage event included, the stored bookings and
\* usage events are what they were before the call started (the other tasks
\* have not called)
NoPartialWrites ==
    [][\A p \in Procs :
           (/\ \A q \in Procs \ {p} : task[q].pc = "idle"
            /\ task[p].pc # "raised"
            /\ task'[p].pc = "raised")
           => /\ statistics' = statistics
              /\ task[p].pc = "add_stat" => ~Occupied(bookings', task[p].date, task[p].time)
              /\ task[p].pc = "del_stat" => task[p].bid \in Ids(bookings')
              /\ task[p].pc \notin {"add_stat", "del_stat"} => bookings' = bookings]_vars

\* C16: get_user_bookings(client) returns all and only the stored bookings of
\* that client, get_all_bookings() every stored booking, each once, in ascending
\* order of (booking_date, booking_time); the list is empty when there is none
ViewsComplete ==
    \A p \in Procs :
        (reads[p].pc = "done" /\ reads[p].op \in {"get_user_bookings", "get_all_bookings"}) =>
            LET want == IF reads[p].op = "get_user_bookings"
                            THEN {r \in bookings : r.user_id = reads[p].uid}
                            ELSE bookings
                got == reads[p].rows
            IN  /\ {got[i].id : i \in DOMAIN got} = Ids(want)
                /\ Len(got) = Cardinality(want)
                /\ \A i \in DOMAIN got :
                       \E r \in want : /\ r.id = got[i].id
                                       /\ r.service = got[i].service
                                       /\ r.booking_date = got[i].booking_date
                                       /\ r.booking_time = got[i].booking_time
                /\ \A i, j \in DOMAIN got :
                       i < j => TupleLess(got[i].booking_date \o got[i].booking_time,
                                          got[j].booking_date \o got[j].booking_time)
                /\ want = {} => got = <<>>

\* a client's two bookings were read, the later created one first, from a store
\* with bookings of others; another task read all bookings
ViewsCompleteWitness ==
    \E p, q \in Procs :
        /\ reads[p].pc = "done"
        /\ reads[p].op = "get_user_bookings"
        /\ Len(reads[p].rows) = 2
        /\ reads[p].rows[1].id > reads[p].rows[2].id
        /\ reads[q].pc = "done"
        /\ reads[q].op = "get_all_bookings"
        /\ Len(reads[q].rows) = 4
        /\ Cardinality({r.user_id : r \in bookings}) = 3

\* C17: popular_services of the summary has at most 3 entries, one per service,
\* each with the number of stored bookings of its service, in non-increasing
\* order of count; no service left out has more bookings than a listed one
PopularServicesTop ==
    \A p \in Procs :
        (reads[p].pc = "done" /\ reads[p].op = "get_statistics_summary") =>
            LET ps == reads[p].popular_services
                stored == {r.service : r \in bookings}
                listed == {ps[i][1] : i \in DOMAIN ps}
            IN  /\ Len(ps) <= 3
                /\ listed \subseteq stored
                /\ \A i \in DOMAIN ps :
                       ps[i][2] = Cardinality({r \in bookings : r.service = ps[i][1]})
                /\ \A i, j \in DOMAIN ps :
                       i < j => (ps[i][2] >= ps[j][2] /\ ps[i][1] # ps[j][1])
                /\ \A s \in stored \ listed :
                       /\ Len(ps) = 3
                       /\ \A i \in DOMAIN ps :
                              Cardinality({r \in bookings : r.service = s}) <= ps[i][2]

\* four services are booked, three are listed with differing counts, and the
\* one left out has as many bookings as the last one listed
PopularServicesTopWitness ==
    \E p \in Procs :
        /\ reads[p].pc = "done"
        /\ reads[p].op = "get_statistics_summary"
        /\ Len(reads[p].popular_services) = 3
        /\ reads[p].popular_services[1][2] > reads[p].popular_services[3][2]
        /\ \E s \in {r.service : r \in bookings} :
               /\ \A i \in 1..3 : reads[p].popular_services[i][1] # s
               /\ Cardinality({r \in bookings : r.service = s})
                      = reads[p].popular_services[3][2]

\* C18: usage events are append-only: every step leaves the events recorded so
\* far as they are, as the first events of the sequence
EventsAppendOnly ==
    [][/\ Len(statistics') >= Len(statistics)
       /\ SubSeq(statistics', 1, Len(statistics)) = statistics]_vars

\* two creates and two deletes are logged
EventsAppendOnlyWitness ==
    /\ Len(statistics) = 4
    /\ CountEvents("booking_deleted") = 2
    /\ statistics[2].action_type = "booking_deleted"

NoModificationInPlace ==
    [][/\ \A r1 \in bookings, r2 \in bookings' : r1.id = r2.id => r1 = r2
       /\ \A r1, r2 \in bookings' : r1.id = r2.id => r1 = r2
       /\ \A r \in bookings' \ bookings : r.id > seq /\ r.id = seq'
       /\ seq' >= seq
       /\ \A r \in bookings' : r.id <= seq'
       /\ \/ bookings' = bookings
          \/ \E r \in bookings' \ bookings : bookings' = bookings \cup {r}
          \/ \E r \in bookings \ bookings' : bookings' = bookings \ {r}]_vars

\* a reschedule has replaced booking 1 by booking 2
NoModificationInPlaceWitness ==
    \E p \in Procs :
        /\ task[p].h = "reschedule_time"
        /\ task[p].pc = "add_ret"
        /\ task[p].res
        /\ Ids(bookings) = {2}
        /\ CountEvents("booking_deleted") = 1
        /\ CountEvents("booking_created") = 2

----------------------------------------------------------------------------
(* Conversations *)

\* C21: add_booking returns False only when a stored booking holds the
\* requested date and time: a call for a free slot does not return False
FalseOnlyWhenTaken ==
    update.add.called => (update.add.res \/ ~update.add.free)

\* C30: whenever finalize_booking calls add_booking, the service, the date and
\* the time it passes are set: none of them is None
BookingCallComplete ==
    (update.add.called /\ update.add.by = "finalize_booking")
        => /\ update.add.service # Missing
           /\ update.add.booking_date # NoDate
           /\ update.add.booking_time # NoTime

\* C25: when the operator has given the name and the phone (or skipped it) in
\* the conversation "Добавить клиента", the booking is made by
\* admin_add_client_time, with a generated client id in 900000000..999999999
\* and the handle admin_added
OperatorBookingSynthetic ==
    (update.add.called /\ update.data.first_name # Missing /\ update.data.phone # Unset)
        => /\ update.handler = "admin_add_client_time"
           /\ update.add.user_id \in 900000000..999999999
           /\ update.add.username = "admin_added"

ClientRemovesOwnOnly ==
    update.handler \in {"process_cancel_booking", "process_reschedule_time"}
        => \A r \in update.removed : r.user_id = update.uid

\* C27 witness: a client has sent cancel_<id> with the id of a booking of
\* another client, and the booking is still stored
ClientRemovesOwnOnlyWitness ==
    /\ update.handler = "process_cancel_booking"
    /\ update.del.called
    /\ update.removed = {}
    /\ \E r \in bookings : r.id = update.del.booking_id /\ r.user_id # update.uid

\* C28: delete_booking with user_id None, get_all_bookings and
\* get_statistics_summary run only for an update of the user ADMIN_ID, and no
\* other user is ever in a state of AdminAddClientStates or AdminDeleteClientStates
OperatorOnly ==
    /\ update.calls \cap {"delete_booking:None", "get_all_bookings",
                          "get_statistics_summary"} # {}
          => update.uid = ADMIN_ID
    /\ update.del.called /\ update.del.user_id = None => update.uid = ADMIN_ID
    /\ \A u \in TgUsers :
           fsm[u].state \in {"AdminAddClientStates:entering_name",
                             "AdminAddClientStates:entering_phone",
                             "AdminAddClientStates:choosing_service",
                             "AdminAddClientStates:choosing_date",
                             "AdminAddClientStates:choosing_time",
                             "AdminDeleteClientStates:entering_booking_id"}
               => u = ADMIN_ID

\* C28 witness: the operator has deleted a booking of a client with
\* delete_booking(booking_id, user_id=None), while the client is in a conversation
OperatorOnlyWitness ==
    /\ update.handler = "admin_delete_client_execute"
    /\ update.uid = ADMIN_ID
    /\ "delete_booking:None" \in update.calls
    /\ \E r \in update.removed : r.user_id # ADMIN_ID
    /\ \E u \in TgUsers : u # ADMIN_ID /\ fsm[u].state # "none"

\* C29: in process_reschedule_time a booking is added only by the step that
\* follows a delete_booking that returned True for the booking being
\* rescheduled, which is then no longer stored; the delete step takes one
\* booking from the client or none, the add step gives the client at most one;
\* after a delete_booking that returned False the handler ends and the store
\* is as it was
HeldBy(rows, u) == Cardinality({r \in rows : r.user_id = u})

RescheduleAddsAfterDelete ==
    [][\A p \in Procs :
           LET f == task[p]
               g == task'[p]
           IN  (g # f /\ (f.h = "reschedule_time" \/ g.h = "reschedule_time"))
               => /\ (f.pc = "del_ret" /\ ~f.res)
                      => (g.pc = "end" /\ bookings' = bookings /\ seq' = seq)
                  /\ (bookings' \ bookings # {})
                      => /\ f.pc = "del_ret"
                         /\ f.res
                         /\ f.bid \notin Ids(bookings)
                         /\ HeldBy(bookings', f.uid) = HeldBy(bookings, f.uid) + 1
                  /\ g.pc = "del_stat"
                      => HeldBy(bookings', g.uid) = HeldBy(bookings, g.uid) - 1
                  /\ (g.pc = "del_ret" /\ ~g.res) => bookings' = bookings]_vars

\* C29 witness: the client pressed the time twice; one handler deleted the
\* booking and stored the new one, the other got False from delete_booking and
\* ended, and the client holds one booking
RescheduleAddsAfterDeleteWitness ==
    \E p, q \in Procs :
        /\ task[p].h = "reschedule_time"
        /\ task[p].pc = "end"
        /\ task[q].h = "reschedule_time"
        /\ task[q].pc = "add_ret"
        /\ task[q].res
        /\ Cardinality(bookings) = 1
        /\ HeldBy(bookings, script[p].f.uid) = 1

(* Notifications *)

\* the notifications of task p that failed
Failed(p) == notify[p].sends - (IF notify[p].delivered THEN 1 ELSE 0)

\* task p is in send_admin_notification
Notifying(p) == notify[p].pc \in {"notify", "send", "sleep"}

\* C22: no step of send_admin_notification, whether its send_message returns
\* or raises, changes the bookings, the id sequence, the usage events or the
\* result the handler got from the store; a handler that has answered has
\* answered with the text of that result, delivered or not; and a handler
\* that has entered send_admin_notification gets to its answer
NotificationLeavesStore ==
    /\ [][\A p \in Procs :
              (Notifying(p) /\ notify'[p] # notify[p])
                  => /\ db' = db
                     /\ notify'[p].result = notify[p].result]_vars
    /\ [](\A p \in Procs :
              (notify[p].pc = "done" /\ notify[p].answer \notin {"not found", "error"})
                  => notify[p].answer =
                         IF notify[p].handler = "finalize_booking"
                             THEN IF notify[p].result THEN "created" ELSE "taken"
                         ELSE IF notify[p].handler = "process_cancel_booking"
                             THEN "cancelled"
                         ELSE IF notify[p].result THEN "moved" ELSE "new time taken")
    /\ [](\A p \in Procs :
              (notify[p].pc = "done" /\ notify[p].result)
                  => notify[p].answer \in {"created", "cancelled", "moved"})
    /\ \A p \in Procs : Notifying(p) ~> (notify[p].pc = "done")

\* C22 witness: two handlers have answered after a successful store call; the
\* notification of one was lost on all three attempts, that of the other was
\* delivered
NotificationLeavesStoreWitness ==
    \E p, q \in Procs :
        /\ notify[p].pc = "done"
        /\ notify[p].handler = "process_reschedule_time"
        /\ notify[p].result
        /\ ~notify[p].delivered
        /\ notify[p].sends = 3
        /\ notify[p].answer = "moved"
        /\ notify[q].pc = "done"
        /\ notify[q].handler = "process_cancel_booking"
        /\ notify[q].result
        /\ notify[q].delivered
        /\ bookings = {}

\* C23: send_admin_notification makes at most 3 attempts, none after a
\* delivered one, none when bot_instance or ADMIN_ID is not set; it has slept
\* once after every failed attempt but the third; and it returns
RetryBounded ==
    /\ [](\A p \in Procs :
              /\ notify[p].sends <= 3
              /\ (notify[p].bot_instance = Missing \/ notify[p].admin_id \in {None, 0})
                     => notify[p].sends = 0
              /\ notify[p].delivered => ~Notifying(p)
              /\ notify[p].pc = "send" => notify[p].sleeps = Failed(p)
              /\ notify[p].pc = "sleep" => notify[p].sleeps = Failed(p) - 1 /\ Failed(p) < 3
              /\ notify[p].pc \in {"reply", "done"}
                     => notify[p].sleeps = IF Failed(p) = 3 THEN 2 ELSE Failed(p))
    /\ [][\A p \in Procs :
              notify[p].delivered => notify'[p].sends = notify[p].sends]_vars
    /\ \A p \in Procs : Notifying(p) ~> ~Notifying(p)

\* C23 witness: one notification was delivered at the third attempt, after two
\* sleeps; another was given up after three attempts and two sleeps
RetryBoundedWitness ==
    \E p, q \in Procs :
        /\ notify[p].pc \in {"reply", "done"}
        /\ notify[p].delivered
        /\ notify[p].sends = 3
        /\ notify[p].sleeps = 2
        /\ notify[q].pc \in {"reply", "done"}
        /\ ~notify[q].delivered
        /\ notify[q].sends = 3
        /\ notify[q].sleeps = 2

(* Database.init_db *)

\* C24: init_db leaves every stored booking, the id sequence, every usage
\* event and every setting as they were, and all three tables exist after it;
\* in every state, before and after any restart, no two bookings share a slot
\* and an add_booking for an occupied slot has returned False
ReinitKeepsData ==
    /\ [][schema' # schema
              => /\ bookings' = bookings
                 /\ seq' = seq
                 /\ statistics' = statistics
                 /\ settings' = settings
                 /\ schema'.tables = Tables
                 /\ schema'.phone]_vars
    /\ [](\A b1, b2 \in bookings :
              (b1.booking_date = b2.booking_date /\ b1.booking_time = b2.booking_time)
                  => b1 = b2)
    /\ []((update.add.called /\ ~update.add.free) => ~update.add.res)

\* C24 witness: the bot was started again on a file that held a booking, its
\* event and the operator's id; they are still stored, and since the restart
\* an add_booking for the occupied slot has been refused
ReinitKeepsDataWitness ==
    /\ schema.starts >= 2
    /\ schema.found >= 3
    /\ bookings # {}
    /\ statistics # <<>>
    /\ settings # {}
    /\ update.add.called
    /\ ~update.add.free
    /\ ~update.add.res

(* get_statistics_summary among writes *)

\* the sum of the counts of popular_services
RECURSIVE PopularSum(_)
PopularSum(ps) == IF ps = <<>> THEN 0 ELSE Head(ps)[2] + PopularSum(Tail(ps))

\* C31: in every summary get_statistics_summary has returned, also when creates
\* and deletes of other tasks ran between its queries, today_bookings,
\* unique_clients and the sum of the counts of popular_services are each at
\* most total_bookings
SummarySnapshot ==
    \A p \in Procs :
        (reads[p].pc = "done" /\ reads[p].op = "get_statistics_summary")
            => /\ reads[p].today_bookings <= reads[p].total_bookings
               /\ reads[p].unique_clients <= reads[p].total_bookings
               /\ PopularSum(reads[p].popular_services) <= reads[p].total_bookings

(* Events and ids *)

IdsNeverReused ==
    /\ [](\A r \in bookings :
              /\ r.id \in 1..seq
              /\ GetBookingById(bookings, r.id) = {r})
    /\ [](\A b \in 1..seq :
              b \notin Ids(bookings)
                  => /\ GetBookingById(bookings, b) = {}
                     /\ \A u \in Users \cup {None} : DeleteMatch(bookings, b, u) = {})
    /\ [][/\ seq' >= seq
          /\ \A r \in bookings' \ bookings : r.id > seq /\ r.id = seq'
          /\ \A b \in 1..seq : b \notin Ids(bookings) => b \notin Ids(bookings')
          /\ \A p \in Procs :
                 (task'[p] # task[p] /\ task'[p].pc = "del_stat")
                     => task'[p].bid \in Ids(bookings)]_vars

\* C33 witness: booking 1 was created and deleted, booking 2 was created after
\* that, and a later delete_booking has returned False
IdsNeverReusedWitness ==
    /\ Len(statistics) = 3
    /\ statistics[2].action_type = "booking_deleted"
    /\ statistics[3].action_type = "booking_created"
    /\ Ids(bookings) = {2}
    /\ seq = 2
    /\ \E p \in Procs : task[p].pc = "del_ret" /\ ~task[p].res

====
